---- MODULE Spec2Model ----
(***************************************************************************)
(* Ledger mutation engine (routes/transactions.ts) and recurring billing   *)
(* scheduler (services/subscriptionProcessor.ts) of the personal finance   *)
(* backend.  Every request handler is a process that advances from one     *)
(* awaited storage call to the next; a storage call is one atomic step of  *)
(* the database, and whatever the handler computes between two awaits is   *)
(* part of the step that follows the first of them.                        *)
(*                                                                         *)
(* Amounts are whole numbers (Number(x) of a Decimal holding a small       *)
(* integer is that integer).  Dates are the integer yyyymmdd.              *)
(***************************************************************************)
EXTENDS Integers, Sequences, FiniteSets, TLC

\* ------------------------------------------------------------------ bounds
\* largest amount a request or a subscription carries
MaxAmount == 2
\* transaction rows the requests of one behaviour create
MaxTx == 1
\* subscriptions created in one behaviour
MaxSubs == 2

\* ---------------------------------------------------------------- universe
Users == {"u1", "u2"}
AccIds == {"a1", "a2", "a3"}
Procs == {"p1", "p2"}
Runs == {"r1", "r2"}
Cycles == {"MONTHLY", "YEARLY"}
TxTypes == {"INCOME", "EXPENSE", "TRANSFER"}

\* HTTP outcomes of the handlers
Created == 201
Ok == 200
NotFound == 404
ServerError == 500
Forbidden == 403
Conflict == 409

\* ------------------------------------------------------------------- dates
\* a Date is the integer yyyymmdd (the zone is UTC, the time of day midnight)
MakeDate(y, m, d) == y * 10000 + m * 100 + d
YearOf(date) == date \div 10000
MonthOf(date) == (date \div 100) % 100
DayOf(date) == date % 100

IsLeap(y) == (y % 4 = 0 /\ y % 100 # 0) \/ y % 400 = 0

DaysInMonth(y, m) ==
  IF m = 2 THEN (IF IsLeap(y) THEN 28 + 1 ELSE 28)
  ELSE IF m \in {4, 6, 9, 11} THEN 30 ELSE 31

\* the Date JavaScript makes of year y, month m in 1..13 and day d in 1..31:
\* month 13 is January of the next year, and a day past the end of the month
\* runs over into the month after
JsDate(y, m, d) ==
  LET yy == IF m > 12 THEN y + 1 ELSE y
      mm == IF m > 12 THEN m - 12 ELSE m
  IN IF d <= DaysInMonth(yy, mm) THEN MakeDate(yy, mm, d)
     ELSE IF mm = 12 THEN MakeDate(yy + 1, 1, d - DaysInMonth(yy, mm))
     ELSE MakeDate(yy, mm + 1, d - DaysInMonth(yy, mm))

\* date.setMonth(date.getMonth() + 1)
SetNextMonth(date) == JsDate(YearOf(date), MonthOf(date) + 1, DayOf(date))

\* date.setFullYear(date.getFullYear() + 1)
SetNextYear(date) == JsDate(YearOf(date) + 1, MonthOf(date), DayOf(date))

\* the date every request payload carries
ReqDate == MakeDate(2024, 1, 15)

VARIABLES
  accounts,       \* Account table: id -> row
  categories,     \* Category table: id -> row
  transactions,   \* Transaction table: id -> row (the domain is the ids stored)
  nextTxId,       \* ids are generated, never reused
  req,            \* per request process: position and locals of its handler
  subscriptions,  \* Subscription table: id -> row
  nextSubId,      \* subscription ids are generated, never reused
  sched,          \* per billing run: position and locals of processSubscriptions
  clock,          \* the latest time a billing run has read
  pre,            \* observer: the tables as the request in progress found them
  prev,           \* observer: the last successful create, its row id and the balance before it
  start           \* observer: the tables as the billing run in progress found them

vars == <<accounts, categories, transactions, nextTxId, req,
          subscriptions, nextSubId, sched, clock, pre, prev, start>>

\* what the request handlers of the transactions never touch
billVars == <<subscriptions, nextSubId, sched, clock>>
\* what a billing run never touches
reqVars == <<req>>
\* what the program never touches: the observer's notes, which the
\* specifications that follow one request or one run at a time keep
observer == <<pre, prev, start>>

\* ------------------------------------------------------------------ values
NoRow == [none |-> TRUE]
NoData == [none |-> TRUE]
NoPrev == [tx |-> 0, acc |-> "", bal |-> 0]

\* logged: the subscriptions the run has written an error about
IdleRun == [pc |-> "idle", now |-> 0, due |-> {}, cur |-> NoRow, account |-> NoRow,
            logged |-> {}]

IdleReq == [pc |-> "idle", op |-> "", userId |-> "", id |-> 0, data |-> NoData,
            account |-> NoRow, existing |-> NoRow, status |-> 0]

Has(data, f) == f \in DOMAIN data

\* a JS object with the keys S of full
Pick(full, S) == [f \in S |-> full[f]]

\* prisma: update({data}) writes the given columns and keeps the others
WriteColumns(row, data) ==
  [f \in DOMAIN row |-> IF f \in DOMAIN data THEN data[f] ELSE row[f]]

\* ----------------------------------------------------------- the schemas
\* mutant: the schema does not ask for a positive amount
CreateSchemaTypeOnly(data) == data.type \in TxTypes

\* CreateTransactionSchema: amount positive, type one of the enum
\* (description is left out of the model; date is a string that parses)
CreateSchemaOk(data) ==
  /\ data.amount > 0
  /\ data.type \in TxTypes

\* UpdateTransactionSchema: every key optional, the same rules when present
UpdateSchemaOk(data) ==
  /\ Has(data, "amount") => data.amount > 0
  /\ Has(data, "type") => data.type \in TxTypes

\* ------------------------------------------------------------- the queries
\* mutant: the account is looked up by id alone among the active ones
FindActiveAccountAnyOwner(accs, id, u) ==
  IF id \in DOMAIN accs /\ accs[id].isActive THEN accs[id] ELSE NoRow

\* prisma.account.findFirst({where: {id, userId, isActive: true}})
FindActiveAccount(accs, id, u) ==
  IF id \in DOMAIN accs /\ accs[id].userId = u /\ accs[id].isActive
  THEN accs[id] ELSE NoRow

\* prisma.category.findFirst({where: {id, OR: [{userId}, {isDefault: true}]}})
FindCategory(cats, id, u) ==
  IF id \in DOMAIN cats /\ (cats[id].userId = u \/ cats[id].isDefault)
  THEN cats[id] ELSE NoRow

\* mutant: the row is looked up by id alone
FindTransactionAnyOwner(txs, id, u) ==
  IF id \in DOMAIN txs THEN txs[id] ELSE NoRow

\* prisma.transaction.findFirst({where: {id, userId}})
FindTransaction(txs, id, u) ==
  IF id \in DOMAIN txs /\ txs[id].userId = u THEN txs[id] ELSE NoRow

\* mutant: the update has no where clause and adds the change to every balance
IncrementEveryBalance(accs, id, change) ==
  [a \in DOMAIN accs |-> [accs[a] EXCEPT !.balance = @ + change]]

\* prisma.account.update({where: {id}, data: {balance: {increment: change}}}):
\* one UPDATE ... SET balance = balance + change of the database
IncrementBalance(accs, id, change) ==
  [accs EXCEPT ![id].balance = @ + change]

\* prisma.transaction.delete({where: {id}})
DeleteRowOf(txs, id) == [i \in DOMAIN txs \ {id} |-> txs[i]]

\* prisma.transaction.create: the row is stored under a generated id
InsertRow(txs, id, row) == [i \in DOMAIN txs \cup {id} |-> IF i = id THEN row ELSE txs[i]]

Finish(r, status) == [r EXCEPT !.pc = "done", !.status = status]

\* a handler is entered by a process that is not inside another one
CanStart(p) == req[p].pc = "idle"

Snapshot == [accounts |-> accounts, transactions |-> transactions]

\* the last successful create is remembered until another request starts
Remember(r) ==
  IF r.op = "create" /\ r.status = Created
  THEN [tx |-> r.id, acc |-> r.data.accountId, bal |-> pre.accounts[r.data.accountId].balance]
  ELSE NoPrev

Enter(p) == CanStart(p)

\* the response is sent and the handler's locals are gone
Return(p) ==
  /\ req[p].pc = "done"
  /\ req' = [req EXCEPT ![p] = IdleReq]
  /\ UNCHANGED <<accounts, categories, transactions, nextTxId>>
  /\ UNCHANGED billVars

\* rows a create still has to insert: ids are handed out up to MaxTx
PendingInserts == Cardinality({q \in Procs : req[q].pc \in {"c_category", "c_insert"}})

\* --------------------------------------------- POST /api/transactions
\* mutant: the create adds the amount whatever the type
CreateBalanceChangeUnsigned(data) == data.amount

\* balanceChange of the create handler
CreateBalanceChange(data) ==
  IF data.type = "EXPENSE" THEN -data.amount ELSE data.amount

\* mutant: the row is stored in the default currency of the accounts
CreatedRowInArs(u, data, account) ==
  [userId |-> u, accountId |-> data.accountId, type |-> data.type,
   amount |-> data.amount, currency |-> "ARS",
   categoryId |-> IF Has(data, "categoryId") THEN data.categoryId ELSE "",
   date |-> data.date, metadata |-> NoData]

\* the row prisma.transaction.create stores
CreatedRow(u, data, account) ==
  [userId |-> u, accountId |-> data.accountId, type |-> data.type,
   amount |-> data.amount, currency |-> account.currency,
   categoryId |-> IF Has(data, "categoryId") THEN data.categoryId ELSE "",
   date |-> data.date, metadata |-> NoData]

\* mutant: the handler adds the change to the balance it read with the account
\* and writes the result
CreateIncrementFromRead(accs, account, change) ==
  [accs EXCEPT ![account.id].balance = account.balance + change]

\* the balance update of the create handler: an increment of the stored value,
\* not of the balance the handler read with the account
CreateIncrement(accs, account, change) ==
  IncrementBalance(accs, account.id, change)

\* parse the body, then look the account up
CreateFindAccount(p, u, data) ==
  /\ Enter(p)
  /\ nextTxId + PendingInserts <= MaxTx
  /\ LET r == [IdleReq EXCEPT !.op = "create", !.userId = u, !.data = data]
         account == FindActiveAccount(accounts, data.accountId, u)
     IN req' = [req EXCEPT ![p] =
          IF ~CreateSchemaOk(data) THEN Finish(r, ServerError)
          ELSE IF account = NoRow THEN Finish(r, NotFound)
          ELSE [r EXCEPT !.account = account,
                         !.pc = IF Has(data, "categoryId") THEN "c_category" ELSE "c_insert"]]
  /\ UNCHANGED <<accounts, categories, transactions, nextTxId>>
  /\ UNCHANGED billVars

CreateFindCategory(p) ==
  /\ req[p].pc = "c_category"
  /\ LET r == req[p] IN
     req' = [req EXCEPT ![p] =
          IF FindCategory(categories, r.data.categoryId, r.userId) = NoRow
          THEN Finish(r, NotFound)
          ELSE [r EXCEPT !.pc = "c_insert"]]
  /\ UNCHANGED <<accounts, categories, transactions, nextTxId>>
  /\ UNCHANGED billVars

CreateInsert(p) ==
  /\ req[p].pc = "c_insert"
  /\ LET r == req[p] IN
     IF r.data.accountId \notin DOMAIN accounts
     THEN \* the row references no account: the insert is refused
          /\ req' = [req EXCEPT ![p] = Finish(r, ServerError)]
          /\ UNCHANGED <<transactions, nextTxId>>
     ELSE /\ transactions' = InsertRow(transactions, nextTxId, CreatedRow(r.userId, r.data, r.account))
          /\ nextTxId' = nextTxId + 1
          /\ req' = [req EXCEPT ![p] =
               IF r.data.type # "TRANSFER"
               THEN [r EXCEPT !.id = nextTxId, !.pc = "c_balance"]
               ELSE Finish([r EXCEPT !.id = nextTxId], Created)]
  /\ UNCHANGED <<accounts, categories>>
  /\ UNCHANGED billVars

CreateAdjust(p) ==
  /\ req[p].pc = "c_balance"
  /\ LET r == req[p] IN
     IF r.data.accountId \notin DOMAIN accounts
     THEN /\ req' = [req EXCEPT ![p] = Finish(r, ServerError)]
          /\ UNCHANGED accounts
     ELSE /\ accounts' = CreateIncrement(accounts, r.account, CreateBalanceChange(r.data))
          /\ req' = [req EXCEPT ![p] = Finish(r, Created)]
  /\ UNCHANGED <<categories, transactions, nextTxId>>
  /\ UNCHANGED billVars

\* ------------------------------------------ PUT /api/transactions/:id
\* the update touches the ledger when one of the three keys is given
LedgerKeysGiven(data) ==
  Has(data, "amount") \/ Has(data, "type") \/ Has(data, "accountId")

\* mutant: the revert has the sign of the apply
OriginalBalanceChangeSameSign(existing) ==
  IF existing.type = "EXPENSE" THEN -existing.amount ELSE existing.amount

\* originalBalanceChange: the revert of the row the handler read
OriginalBalanceChange(existing) ==
  IF existing.type = "EXPENSE" THEN existing.amount ELSE -existing.amount

\* mutant: a request without a type is taken for an EXPENSE
NewTypeFromRequestOnly(data, existing) == IF Has(data, "type") THEN data.type ELSE "EXPENSE"

\* mutant: the new contribution goes to the account the row had
NewAccountIdKeepsOld(data, existing) == existing.accountId

NewAmount(data, existing) == IF Has(data, "amount") THEN data.amount ELSE existing.amount
NewType(data, existing) == IF Has(data, "type") THEN data.type ELSE existing.type
NewAccountId(data, existing) ==
  IF Has(data, "accountId") THEN data.accountId ELSE existing.accountId

\* newBalanceChange
NewBalanceChange(newType, newAmount) ==
  IF newType = "EXPENSE" THEN -newAmount ELSE newAmount

\* mutant: the revert is not skipped for a row that was a TRANSFER
AfterWriteRevertsTransfer(r) ==
  IF ~LedgerKeysGiven(r.data) THEN Finish(r, Ok) ELSE [r EXCEPT !.pc = "u_revert"]

\* where the handler goes once the row is written
AfterWrite(r) ==
  IF ~LedgerKeysGiven(r.data) THEN Finish(r, Ok)
  ELSE IF r.existing.type # "TRANSFER" THEN [r EXCEPT !.pc = "u_revert"]
  ELSE IF NewType(r.data, r.existing) # "TRANSFER" THEN [r EXCEPT !.pc = "u_apply"]
  ELSE Finish(r, Ok)

AfterRevert(r) ==
  IF NewType(r.data, r.existing) # "TRANSFER" THEN [r EXCEPT !.pc = "u_apply"]
  ELSE Finish(r, Ok)

UpdateFindExisting(p, u, id, data) ==
  /\ Enter(p)
  /\ LET r == [IdleReq EXCEPT !.op = "update", !.userId = u, !.id = id, !.data = data]
         existing == FindTransaction(transactions, id, u)
     IN req' = [req EXCEPT ![p] =
          IF ~UpdateSchemaOk(data) THEN Finish(r, ServerError)
          ELSE IF existing = NoRow THEN Finish(r, NotFound)
          ELSE [r EXCEPT !.existing = existing,
                 !.pc = IF Has(data, "accountId") /\ data.accountId # existing.accountId
                        THEN "u_account"
                        ELSE IF Has(data, "categoryId") THEN "u_category" ELSE "u_write"]]
  /\ UNCHANGED <<accounts, categories, transactions, nextTxId>>
  /\ UNCHANGED billVars

UpdateFindAccount(p) ==
  /\ req[p].pc = "u_account"
  /\ LET r == req[p] IN
     req' = [req EXCEPT ![p] =
          IF FindActiveAccount(accounts, r.data.accountId, r.userId) = NoRow
          THEN Finish(r, NotFound)
          ELSE [r EXCEPT !.pc = IF Has(r.data, "categoryId") THEN "u_category" ELSE "u_write"]]
  /\ UNCHANGED <<accounts, categories, transactions, nextTxId>>
  /\ UNCHANGED billVars

UpdateFindCategory(p) ==
  /\ req[p].pc = "u_category"
  /\ LET r == req[p] IN
     req' = [req EXCEPT ![p] =
          IF FindCategory(categories, r.data.categoryId, r.userId) = NoRow
          THEN Finish(r, NotFound)
          ELSE [r EXCEPT !.pc = "u_write"]]
  /\ UNCHANGED <<accounts, categories, transactions, nextTxId>>
  /\ UNCHANGED billVars

UpdateWrite(p) ==
  /\ req[p].pc = "u_write"
  /\ LET r == req[p] IN
     IF r.id \notin DOMAIN transactions
          \/ (Has(r.data, "accountId") /\ r.data.accountId \notin DOMAIN accounts)
     THEN \* no row to update, or a reference to no account: prisma throws
          /\ req' = [req EXCEPT ![p] = Finish(r, ServerError)]
          /\ UNCHANGED transactions
     ELSE /\ transactions' = [transactions EXCEPT ![r.id] = WriteColumns(@, r.data)]
          /\ req' = [req EXCEPT ![p] = AfterWrite(r)]
  /\ UNCHANGED <<accounts, categories, nextTxId>>
  /\ UNCHANGED billVars

UpdateRevert(p) ==
  /\ req[p].pc = "u_revert"
  /\ LET r == req[p] IN
     IF r.existing.accountId \notin DOMAIN accounts
     THEN /\ req' = [req EXCEPT ![p] = Finish(r, ServerError)]
          /\ UNCHANGED accounts
     ELSE /\ accounts' = IncrementBalance(accounts, r.existing.accountId,
                                          OriginalBalanceChange(r.existing))
          /\ req' = [req EXCEPT ![p] = AfterRevert(r)]
  /\ UNCHANGED <<categories, transactions, nextTxId>>
  /\ UNCHANGED billVars

UpdateApply(p) ==
  /\ req[p].pc = "u_apply"
  /\ LET r == req[p]
         acc == NewAccountId(r.data, r.existing)
     IN
     IF acc \notin DOMAIN accounts
     THEN /\ req' = [req EXCEPT ![p] = Finish(r, ServerError)]
          /\ UNCHANGED accounts
     ELSE /\ accounts' = IncrementBalance(accounts, acc,
                 NewBalanceChange(NewType(r.data, r.existing), NewAmount(r.data, r.existing)))
          /\ req' = [req EXCEPT ![p] = Finish(r, Ok)]
  /\ UNCHANGED <<categories, transactions, nextTxId>>
  /\ UNCHANGED billVars

\* --------------------------------------- DELETE /api/transactions/:id
\* mutant: the delete reverts an INCOME as if it were an EXPENSE
DeleteBalanceChangeAlwaysAdds(tx) == tx.amount

\* balanceChange of the delete handler
DeleteBalanceChange(tx) ==
  IF tx.type = "EXPENSE" THEN tx.amount ELSE -tx.amount

DeleteFind(p, u, id) ==
  /\ Enter(p)
  /\ LET r == [IdleReq EXCEPT !.op = "delete", !.userId = u, !.id = id]
         tx == FindTransaction(transactions, id, u)
     IN req' = [req EXCEPT ![p] =
          IF tx = NoRow THEN Finish(r, NotFound)
          ELSE [r EXCEPT !.existing = tx, !.pc = "d_delete"]]
  /\ UNCHANGED <<accounts, categories, transactions, nextTxId>>
  /\ UNCHANGED billVars

\* mutant: a delete of a row that is not stored goes through
DeleteNeverRefused(txs, id) == FALSE

\* prisma.transaction.delete({where: {id}}) throws when no row has the id
DeleteRefused(txs, id) == id \notin DOMAIN txs

DeleteRow(p) ==
  /\ req[p].pc = "d_delete"
  /\ LET r == req[p] IN
     IF DeleteRefused(transactions, r.id)
     THEN /\ req' = [req EXCEPT ![p] = Finish(r, ServerError)]
          /\ UNCHANGED transactions
     ELSE /\ transactions' = DeleteRowOf(transactions, r.id)
          /\ req' = [req EXCEPT ![p] =
               IF r.existing.type # "TRANSFER" THEN [r EXCEPT !.pc = "d_revert"]
               ELSE Finish(r, Ok)]
  /\ UNCHANGED <<accounts, categories, nextTxId>>
  /\ UNCHANGED billVars

DeleteRevert(p) ==
  /\ req[p].pc = "d_revert"
  /\ LET r == req[p] IN
     IF r.existing.accountId \notin DOMAIN accounts
     THEN /\ req' = [req EXCEPT ![p] = Finish(r, ServerError)]
          /\ UNCHANGED accounts
     ELSE /\ accounts' = IncrementBalance(accounts, r.existing.accountId,
                                          DeleteBalanceChange(r.existing))
          /\ req' = [req EXCEPT ![p] = Finish(r, Ok)]
  /\ UNCHANGED <<categories, transactions, nextTxId>>
  /\ UNCHANGED billVars

\* the awaited storage call throws (or times out): the catch block answers 500
\* and nothing that was written before is taken back
StorageFails(p) ==
  /\ req[p].pc \notin {"idle", "done"}
  /\ req' = [req EXCEPT ![p] = Finish(@, ServerError)]
  /\ UNCHANGED <<accounts, categories, transactions, nextTxId>>
  /\ UNCHANGED billVars

\* ------------------------------------------- POST /api/subscriptions
\* CreateSubscriptionSchema: amount positive, billingCycle one of the enum
SubscriptionSchemaOk(data) ==
  /\ data.amount > 0
  /\ data.billingCycle \in Cycles

\* the row prisma.subscription.create stores (isActive is true by default)
SubscriptionRow(id, u, data) ==
  [id |-> id, userId |-> u, name |-> data.name, amount |-> data.amount,
   billingCycle |-> data.billingCycle,
   nextBillingDate |-> data.nextBillingDate, accountId |-> data.accountId,
   categoryId |-> IF Has(data, "categoryId") THEN data.categoryId ELSE "",
   isActive |-> TRUE]

\* the whole handler: the account and the category are looked up and the row
\* is stored; a refused request stores nothing
SubscriptionCreate(u, data) ==
  /\ nextSubId <= MaxSubs
  /\ SubscriptionSchemaOk(data)
  /\ FindActiveAccount(accounts, data.accountId, u) # NoRow
  /\ Has(data, "categoryId") => FindCategory(categories, data.categoryId, u) # NoRow
  /\ subscriptions' = InsertRow(subscriptions, nextSubId, SubscriptionRow(nextSubId, u, data))
  /\ nextSubId' = nextSubId + 1
  /\ UNCHANGED <<accounts, categories, transactions, nextTxId, sched, clock>>
  /\ UNCHANGED reqVars

\* ------------------------------------------------ processSubscriptions
\* mutant: the query asks for lt instead of lte
DueSubscriptionsBefore(subs, now) ==
  {subs[i] : i \in {j \in DOMAIN subs : subs[j].isActive /\ subs[j].nextBillingDate < now}}

\* mutant: the query does not ask for isActive
DueSubscriptionsAnyState(subs, now) ==
  {subs[i] : i \in {j \in DOMAIN subs : subs[j].nextBillingDate <= now}}

\* prisma.subscription.findMany({where: {isActive: true, nextBillingDate: {lte: now}}})
DueSubscriptions(subs, now) ==
  {subs[i] : i \in {j \in DOMAIN subs : subs[j].isActive /\ subs[j].nextBillingDate <= now}}

\* prisma.account.findUnique({where: {id}, select: {currency: true}})
FindAccountCurrency(accs, id) ==
  IF id \in DOMAIN accs THEN [currency |-> accs[id].currency] ELSE NoRow

\* mutant: the row is dated at the time of the run and carries no cycle
BilledRowDatedAtRun(sub, account) ==
  [userId |-> sub.userId, accountId |-> sub.accountId, type |-> "EXPENSE",
   amount |-> sub.amount, currency |-> account.currency, categoryId |-> sub.categoryId,
   date |-> clock,
   metadata |-> [subscriptionId |-> sub.id, subscriptionName |-> sub.name,
                 billingCycle |-> ""]]

\* the expense row the run stores for a subscription
BilledRow(sub, account) ==
  [userId |-> sub.userId, accountId |-> sub.accountId, type |-> "EXPENSE",
   amount |-> sub.amount, currency |-> account.currency, categoryId |-> sub.categoryId,
   date |-> sub.nextBillingDate,
   metadata |-> [subscriptionId |-> sub.id, subscriptionName |-> sub.name,
                 billingCycle |-> sub.billingCycle]]

\* the subscription a stored row was billed for (0: none, ids start at 1)
SubscriptionOf(row) ==
  IF row.metadata = NoData THEN 0 ELSE row.metadata.subscriptionId

\* mutant: the decrement is not written
DecrementBalanceNotWritten(accs, id, amount) == accs

\* mutant: the run adds the amount to the balance
DecrementBalanceAdds(accs, id, amount) ==
  [accs EXCEPT ![id].balance = @ + amount]

\* prisma.account.update({where: {id}, data: {balance: {decrement: amount}}})
DecrementBalance(accs, id, amount) ==
  [accs EXCEPT ![id].balance = @ - amount]

\* mutant: the subscription is moved two cycles ahead
AdvancedBillingDateTwice(sub) ==
  IF sub.billingCycle = "MONTHLY" THEN SetNextMonth(SetNextMonth(sub.nextBillingDate))
  ELSE SetNextYear(SetNextYear(sub.nextBillingDate))

\* mutant: the next date is counted from the time of the run
AdvancedBillingDateFromNow(sub) ==
  IF sub.billingCycle = "MONTHLY" THEN SetNextMonth(clock) ELSE SetNextYear(clock)

\* mutant: the subscription is moved to its first date after the time of the run
AdvancedBillingDatePastNow(sub) ==
  LET RECURSIVE Jump(_)
      Jump(d) == IF d > clock THEN d
                 ELSE Jump(IF sub.billingCycle = "MONTHLY" THEN SetNextMonth(d)
                           ELSE SetNextYear(d))
  IN Jump(IF sub.billingCycle = "MONTHLY" THEN SetNextMonth(sub.nextBillingDate)
          ELSE SetNextYear(sub.nextBillingDate))

\* the next billing date, computed from the one the run read
AdvancedBillingDate(sub) ==
  IF sub.billingCycle = "MONTHLY" THEN SetNextMonth(sub.nextBillingDate)
  ELSE IF sub.billingCycle = "YEARLY" THEN SetNextYear(sub.nextBillingDate)
  ELSE sub.nextBillingDate

\* mutant: a billed subscription is switched off
AdvanceAndEndSubscription(subs, sub) ==
  [subs EXCEPT ![sub.id].nextBillingDate = AdvancedBillingDate(sub),
               ![sub.id].isActive = FALSE]

\* prisma.subscription.update({where: {id}, data: {nextBillingDate}})
AdvanceSubscription(subs, sub) ==
  [subs EXCEPT ![sub.id].nextBillingDate = AdvancedBillingDate(sub)]

\* the for loop goes on with the subscriptions left, or the run ends
NextSubscription(run) ==
  IF run.due = {} THEN [run EXCEPT !.pc = "done", !.cur = NoRow, !.account = NoRow]
  ELSE [run EXCEPT !.pc = "s_account", !.cur = NoRow, !.account = NoRow]

\* mutant: the catch block of the loop throws the error again
SkipRethrows(run, id) ==
  [run EXCEPT !.pc = "threw", !.logged = @ \cup {id}]

\* mutant: an error about one subscription ends the loop
SkipAndStop(run, id) ==
  [run EXCEPT !.pc = "done", !.due = {}, !.cur = NoRow, !.account = NoRow,
              !.logged = @ \cup {id}]

\* console.error about subscription id, then the loop goes on: the `continue`
\* of a missing account and the catch block of the loop body
Skip(run, id) ==
  NextSubscription([run EXCEPT !.logged = @ \cup {id}])

BillingSnapshot ==
  [accounts |-> accounts, transactions |-> transactions, subscriptions |-> subscriptions]

\* the run reads the clock and queries the due subscriptions
RunFindDue(r, now) ==
  /\ sched[r].pc \in {"idle", "done"}
  /\ now >= clock
  /\ clock' = now
  /\ sched' = [sched EXCEPT ![r] =
       NextSubscription([IdleRun EXCEPT !.now = now,
                                        !.due = DueSubscriptions(subscriptions, now)])]
  /\ UNCHANGED <<accounts, categories, transactions, nextTxId, subscriptions, nextSubId>>
  /\ UNCHANGED reqVars

\* mutant: a subscription without an account has its date advanced
AdvanceMissingAccount(run, sub) ==
  [run EXCEPT !.pc = "s_advance", !.cur = sub]

\* if (!account): the error is written and the loop goes on
SkipMissingAccount(run, sub) == Skip(run, sub.id)

\* the loop takes a subscription of the result (the query states no order) and
\* looks its account up; without an account it goes on with the next one
RunFindAccount(r) ==
  /\ sched[r].pc = "s_account"
  /\ \E sub \in sched[r].due :
       LET run == [sched[r] EXCEPT !.due = @ \ {sub}]
           account == FindAccountCurrency(accounts, sub.accountId)
       IN sched' = [sched EXCEPT ![r] =
            IF account = NoRow THEN SkipMissingAccount(run, sub)
            ELSE [run EXCEPT !.pc = "s_create", !.cur = sub, !.account = account]]
  /\ UNCHANGED <<accounts, categories, transactions, nextTxId, subscriptions, nextSubId, clock>>
  /\ UNCHANGED reqVars

RunCreate(r) ==
  /\ sched[r].pc = "s_create"
  /\ LET run == sched[r] IN
     IF run.cur.accountId \notin DOMAIN accounts
     THEN \* the row references no account: the insert is refused and caught
          /\ sched' = [sched EXCEPT ![r] = Skip(run, run.cur.id)]
          /\ UNCHANGED <<transactions, nextTxId>>
     ELSE /\ transactions' = InsertRow(transactions, nextTxId, BilledRow(run.cur, run.account))
          /\ nextTxId' = nextTxId + 1
          /\ sched' = [sched EXCEPT ![r].pc = "s_balance"]
  /\ UNCHANGED <<accounts, categories, subscriptions, nextSubId, clock>>
  /\ UNCHANGED reqVars

RunDecrement(r) ==
  /\ sched[r].pc = "s_balance"
  /\ LET run == sched[r] IN
     IF run.cur.accountId \notin DOMAIN accounts
     THEN /\ sched' = [sched EXCEPT ![r] = Skip(run, run.cur.id)]
          /\ UNCHANGED accounts
     ELSE /\ accounts' = DecrementBalance(accounts, run.cur.accountId, run.cur.amount)
          /\ sched' = [sched EXCEPT ![r].pc = "s_advance"]
  /\ UNCHANGED <<categories, transactions, nextTxId, subscriptions, nextSubId, clock>>
  /\ UNCHANGED reqVars

RunAdvance(r) ==
  /\ sched[r].pc = "s_advance"
  /\ LET run == sched[r] IN
     IF run.cur.id \notin DOMAIN subscriptions
     THEN \* no row to update: prisma throws and the loop catches it
          /\ UNCHANGED subscriptions
          /\ sched' = [sched EXCEPT ![r] = Skip(run, run.cur.id)]
     ELSE /\ subscriptions' = AdvanceSubscription(subscriptions, run.cur)
          /\ sched' = [sched EXCEPT ![r] = NextSubscription(run)]
  /\ UNCHANGED <<accounts, categories, transactions, nextTxId, nextSubId, clock>>
  /\ UNCHANGED reqVars

\* an awaited storage call of the loop body throws: the catch block of the
\* loop writes the error and the loop goes on; nothing written before is taken back
RunStepFails(r) ==
  /\ sched[r].pc \in {"s_account", "s_create", "s_balance", "s_advance"}
  /\ IF sched[r].pc = "s_account"
     THEN \E sub \in sched[r].due :
            sched' = [sched EXCEPT ![r] = Skip([sched[r] EXCEPT !.due = @ \ {sub}], sub.id)]
     ELSE sched' = [sched EXCEPT ![r] = Skip(sched[r], sched[r].cur.id)]
  /\ UNCHANGED <<accounts, categories, transactions, nextTxId, subscriptions, nextSubId, clock>>
  /\ UNCHANGED reqVars

\* the query for the due subscriptions throws: the outer catch block writes
\* the error and the run ends
RunQueryFails(r, now) ==
  /\ sched[r].pc \in {"idle", "done"}
  /\ now >= clock
  /\ clock' = now
  /\ sched' = [sched EXCEPT ![r] = [IdleRun EXCEPT !.now = now, !.pc = "done"]]
  /\ UNCHANGED <<accounts, categories, transactions, nextTxId, subscriptions, nextSubId>>
  /\ UNCHANGED reqVars

\* the process of the job is stopped while the loop is between two
\* subscriptions: nothing more is written; what the run had not looked at yet
\* is kept in the record of the run, which no other run reads
RunStops(r) ==
  /\ sched[r].pc = "s_account"
  /\ sched' = [sched EXCEPT ![r].pc = "stopped"]
  /\ UNCHANGED <<accounts, categories, transactions, nextTxId, subscriptions, nextSubId, clock>>
  /\ UNCHANGED reqVars

\* processSubscriptions has returned and its locals are gone
RunReturn(r) ==
  /\ sched[r].pc = "done"
  /\ sched' = [sched EXCEPT ![r] = IdleRun]
  /\ UNCHANGED <<accounts, categories, transactions, nextTxId, subscriptions, nextSubId, clock>>
  /\ UNCHANGED reqVars

\* -------------------------------------------- PUT /api/subscriptions/:id
\* UpdateSubscriptionSchema: every key optional, the same rules when present
SubscriptionUpdateSchemaOk(data) ==
  /\ Has(data, "amount") => data.amount > 0
  /\ Has(data, "billingCycle") => data.billingCycle \in Cycles
  /\ Has(data, "isActive") => data.isActive \in BOOLEAN

\* prisma.subscription.findFirst({where: {id, userId}})
FindSubscription(subs, id, u) ==
  IF id \in DOMAIN subs /\ subs[id].userId = u THEN subs[id] ELSE NoRow

\* the whole handler: the subscription, a new account and a category are
\* looked up and the given columns are written; a refused request writes nothing
SubscriptionUpdate(u, id, data) ==
  /\ SubscriptionUpdateSchemaOk(data)
  /\ FindSubscription(subscriptions, id, u) # NoRow
  /\ Has(data, "accountId") /\ data.accountId # subscriptions[id].accountId
       => FindActiveAccount(accounts, data.accountId, u) # NoRow
  /\ Has(data, "categoryId") => FindCategory(categories, data.categoryId, u) # NoRow
  /\ subscriptions' = [subscriptions EXCEPT ![id] = WriteColumns(@, data)]
  /\ UNCHANGED <<accounts, categories, transactions, nextTxId, nextSubId, sched, clock>>
  /\ UNCHANGED reqVars

\* ----------------------------------------- DELETE /api/subscriptions/:id
\* the whole handler: the subscription of the caller is looked up and its row
\* is removed; a refused request removes nothing
SubscriptionDelete(u, id) ==
  /\ FindSubscription(subscriptions, id, u) # NoRow
  /\ subscriptions' = [i \in DOMAIN subscriptions \ {id} |-> subscriptions[i]]
  /\ UNCHANGED <<accounts, categories, transactions, nextTxId, nextSubId, sched, clock>>
  /\ UNCHANGED reqVars

\* ------------------------------------------------ DELETE /api/accounts/:id
\* prisma.transaction.count({where: {accountId}})
TransactionCount(txs, id) == Cardinality({t \in DOMAIN txs : txs[t].accountId = id})

\* the whole handler: an account with transactions is marked inactive, one
\* without is removed.  The database schema is not part of the sources: when
\* subscriptions refer to the removed account the database either keeps them
\* (no constraint), removes them with the account (cascade), or refuses the
\* delete (the handler answers 500 and nothing changes).
AccountDelete(u, id) ==
  /\ FindActiveAccount(accounts, id, u) # NoRow
  /\ IF TransactionCount(transactions, id) > 0
     THEN /\ accounts' = [accounts EXCEPT ![id].isActive = FALSE]
          /\ UNCHANGED subscriptions
     ELSE /\ accounts' = [a \in DOMAIN accounts \ {id} |-> accounts[a]]
          /\ \/ UNCHANGED subscriptions
             \/ subscriptions' =
                  [i \in {j \in DOMAIN subscriptions : subscriptions[j].accountId # id}
                     |-> subscriptions[i]]
  /\ UNCHANGED <<categories, transactions, nextTxId, nextSubId, sched, clock>>
  /\ UNCHANGED reqVars

\* the steps of the same handler, one per awaited storage call
AccountDeleteFind(p, u, id) ==
  /\ Enter(p)
  /\ LET r == [IdleReq EXCEPT !.op = "accountDelete", !.userId = u,
                              !.data = [accountId |-> id]]
         existingAccount == FindActiveAccount(accounts, id, u)
     IN req' = [req EXCEPT ![p] =
          IF existingAccount = NoRow THEN Finish(r, NotFound)
          ELSE [r EXCEPT !.account = existingAccount, !.pc = "a_count"]]
  /\ UNCHANGED <<accounts, categories, transactions, nextTxId>>
  /\ UNCHANGED billVars

\* transactionCount > 0 decides between the update and the delete
AccountDeleteCount(p) ==
  /\ req[p].pc = "a_count"
  /\ req' = [req EXCEPT ![p].pc =
       IF TransactionCount(transactions, req[p].data.accountId) > 0
       THEN "a_update" ELSE "a_delete"]
  /\ UNCHANGED <<accounts, categories, transactions, nextTxId>>
  /\ UNCHANGED billVars

\* prisma.account.update({where: {id}, data: {isActive: false}})
AccountDeleteUpdate(p) ==
  /\ req[p].pc = "a_update"
  /\ LET id == req[p].data.accountId IN
     IF id \notin DOMAIN accounts
     THEN /\ req' = [req EXCEPT ![p] = Finish(@, ServerError)]
          /\ UNCHANGED accounts
     ELSE /\ accounts' = [accounts EXCEPT ![id].isActive = FALSE]
          /\ req' = [req EXCEPT ![p] = Finish(@, Ok)]
  /\ UNCHANGED <<categories, transactions, nextTxId>>
  /\ UNCHANGED billVars

\* prisma.account.delete({where: {id}}).  When transaction rows refer to the
\* account (they were stored after the count), what the database does is set
\* by the schema, which is not part of the sources: it refuses the delete
\* (the handler answers 500) or removes the rows with the account.
AccountDeleteRemove(p) ==
  /\ req[p].pc = "a_delete"
  /\ LET id == req[p].data.accountId IN
     IF id \notin DOMAIN accounts
     THEN /\ req' = [req EXCEPT ![p] = Finish(@, ServerError)]
          /\ UNCHANGED <<accounts, transactions>>
     ELSE \/ /\ TransactionCount(transactions, id) > 0
             /\ req' = [req EXCEPT ![p] = Finish(@, ServerError)]
             /\ UNCHANGED <<accounts, transactions>>
          \/ /\ accounts' = [a \in DOMAIN accounts \ {id} |-> accounts[a]]
             /\ transactions' =
                  [t \in {x \in DOMAIN transactions : transactions[x].accountId # id}
                     |-> transactions[t]]
             /\ req' = [req EXCEPT ![p] = Finish(@, Ok)]
  /\ UNCHANGED <<categories, nextTxId>>
  /\ UNCHANGED billVars

\* --------------------------------------------------- PUT /api/accounts/:id
Currencies == {"USD", "ARS"}

\* UpdateAccountSchema: every key optional; balance is any number, currency one
\* of the enum (name and type are left out of the model)
AccountUpdateSchemaOk(data) ==
  Has(data, "currency") => data.currency \in Currencies

\* the whole handler: the account is looked up (active, owned by the caller)
\* and the validated body is written as it is; a refused request writes nothing
AccountUpdate(u, id, data) ==
  /\ AccountUpdateSchemaOk(data)
  /\ FindActiveAccount(accounts, id, u) # NoRow
  /\ accounts' = [accounts EXCEPT ![id] = WriteColumns(@, data)]
  /\ UNCHANGED <<categories, transactions, nextTxId, subscriptions, nextSubId, sched, clock>>
  /\ UNCHANGED reqVars

\* ------------------------------------------------------- /api/categories
\* CreateCategorySchema: a name of at least one character, type one of the enum
\* (color and icon are left out of the model)
CategorySchemaOk(data) ==
  /\ data.name # ""
  /\ data.type \in TxTypes

\* UpdateCategorySchema: every key optional, the same rules when present
CategoryUpdateSchemaOk(data) ==
  /\ Has(data, "name") => data.name # ""
  /\ Has(data, "type") => data.type \in TxTypes

\* prisma.category.findFirst({where: {id, userId}})
FindOwnCategory(cats, id, u) ==
  IF id \in DOMAIN cats /\ cats[id].userId = u THEN cats[id] ELSE NoRow

\* prisma.category.findFirst({where: {userId, name, id: {not: id}}})
NameTaken(cats, u, name, id) ==
  \E c \in DOMAIN cats : c # id /\ cats[c].userId = u /\ cats[c].name = name

\* prisma.transaction.count({where: {categoryId}})
CategoryTransactionCount(txs, id) ==
  Cardinality({t \in DOMAIN txs : txs[t].categoryId = id})

\* mutant: the handlers do not look at isDefault
IsDefaultIgnored(existingCategory) == FALSE

\* if (existingCategory.isDefault): the request is refused with 403
IsDefault(existingCategory) == existingCategory.isDefault

\* ids the database generates for new categories
NewCategoryIds == {"c3", "c4"}

\* POST /api/categories, the whole handler: the body is parsed, a category of
\* the caller with the same name makes it a conflict, else the row is stored
\* under an id that is not stored, never as a default
CategoryCreate(p, u, data) ==
  /\ Enter(p)
  /\ LET r == [IdleReq EXCEPT !.op = "categoryCreate", !.userId = u, !.data = data] IN
     IF ~CategorySchemaOk(data)
     THEN req' = [req EXCEPT ![p] = Finish(r, ServerError)] /\ UNCHANGED categories
     ELSE IF NameTaken(categories, u, data.name, "")
     THEN req' = [req EXCEPT ![p] = Finish(r, Conflict)] /\ UNCHANGED categories
     ELSE \E id \in NewCategoryIds \ DOMAIN categories :
            /\ categories' =
                 InsertRow(categories, id,
                           [id |-> id, userId |-> u, isDefault |-> FALSE,
                            name |-> data.name, type |-> data.type])
            /\ req' = [req EXCEPT ![p] = Finish(r, Created)]
  /\ UNCHANGED <<accounts, transactions, nextTxId>>
  /\ UNCHANGED billVars

\* the steps of the same handler, one per awaited storage call:
\* prisma.category.findFirst({where: {userId, name}})
CategoryCreateFind(p, u, data) ==
  /\ Enter(p)
  /\ LET r == [IdleReq EXCEPT !.op = "categoryCreate", !.userId = u, !.data = data] IN
     req' = [req EXCEPT ![p] =
       IF ~CategorySchemaOk(data) THEN Finish(r, ServerError)
       ELSE IF NameTaken(categories, u, data.name, "") THEN Finish(r, Conflict)
       ELSE [r EXCEPT !.pc = "k_insert"]]
  /\ UNCHANGED <<accounts, categories, transactions, nextTxId>>
  /\ UNCHANGED billVars

\* prisma.category.create({data}).  When the name was stored for the caller
\* after the findFirst, what the database does is set by the schema, which is
\* not part of the sources: it refuses the row (the handler answers 500) or
\* stores it.
CategoryCreateInsert(p) ==
  /\ req[p].pc = "k_insert"
  /\ LET u == req[p].userId
         data == req[p].data
     IN
     \/ /\ NameTaken(categories, u, data.name, "")
        /\ req' = [req EXCEPT ![p] = Finish(@, ServerError)]
        /\ UNCHANGED categories
     \/ \E id \in NewCategoryIds \ DOMAIN categories :
          /\ categories' =
               InsertRow(categories, id,
                         [id |-> id, userId |-> u, isDefault |-> FALSE,
                          name |-> data.name, type |-> data.type])
          /\ req' = [req EXCEPT ![p] = Finish(@, Created)]
  /\ UNCHANGED <<accounts, transactions, nextTxId>>
  /\ UNCHANGED billVars

\* PUT /api/categories/:id, the whole handler
CategoryUpdate(p, u, id, data) ==
  /\ Enter(p)
  /\ LET r == [IdleReq EXCEPT !.op = "categoryUpdate", !.userId = u,
                              !.data = data, !.existing = [id |-> id]]
         existingCategory == FindOwnCategory(categories, id, u)
     IN
     IF ~CategoryUpdateSchemaOk(data)
     THEN req' = [req EXCEPT ![p] = Finish(r, ServerError)] /\ UNCHANGED categories
     ELSE IF existingCategory = NoRow
     THEN req' = [req EXCEPT ![p] = Finish(r, NotFound)] /\ UNCHANGED categories
     ELSE IF IsDefault(existingCategory)
     THEN req' = [req EXCEPT ![p] = Finish(r, Forbidden)] /\ UNCHANGED categories
     ELSE IF /\ Has(data, "name")
             /\ data.name # existingCategory.name
             /\ NameTaken(categories, u, data.name, id)
     THEN req' = [req EXCEPT ![p] = Finish(r, Conflict)] /\ UNCHANGED categories
     ELSE /\ categories' = [categories EXCEPT ![id] = WriteColumns(@, data)]
          /\ req' = [req EXCEPT ![p] = Finish(r, Ok)]
  /\ UNCHANGED <<accounts, transactions, nextTxId>>
  /\ UNCHANGED billVars

\* DELETE /api/categories/:id, the whole handler
CategoryDelete(p, u, id) ==
  /\ Enter(p)
  /\ LET r == [IdleReq EXCEPT !.op = "categoryDelete", !.userId = u,
                              !.existing = [id |-> id]]
         existingCategory == FindOwnCategory(categories, id, u)
     IN
     IF existingCategory = NoRow
     THEN req' = [req EXCEPT ![p] = Finish(r, NotFound)] /\ UNCHANGED categories
     ELSE IF IsDefault(existingCategory)
     THEN req' = [req EXCEPT ![p] = Finish(r, Forbidden)] /\ UNCHANGED categories
     ELSE IF CategoryTransactionCount(transactions, id) > 0
     THEN req' = [req EXCEPT ![p] = Finish(r, Conflict)] /\ UNCHANGED categories
     ELSE /\ categories' = [c \in DOMAIN categories \ {id} |-> categories[c]]
          /\ req' = [req EXCEPT ![p] = Finish(r, Ok)]
  /\ UNCHANGED <<accounts, transactions, nextTxId>>
  /\ UNCHANGED billVars

\* ------------------------------------------------------- request inputs
\* accounts of u1 (a1 in USD, a2 in ARS); a3 is the account of u2
OwnAccIds == {"a1", "a2"}

\* bodies that pass the schema and name an account of the caller
LedgerPayloads ==
  [amount : 1..MaxAmount, type : TxTypes, accountId : OwnAccIds, date : {ReqDate}]

\* bodies the schema refuses: a zero amount, a negative amount, an unknown type
InvalidPayloads ==
  {[amount |-> 0, type |-> "EXPENSE", accountId |-> "a1", date |-> ReqDate],
   [amount |-> -1, type |-> "INCOME", accountId |-> "a1", date |-> ReqDate],
   [amount |-> 1, type |-> "OTHER", accountId |-> "a1", date |-> ReqDate]}

\* creates: every ledger body, one on the account of another user, one with a
\* category that is not stored, and the bodies the schema refuses
CreatePayloads ==
  LedgerPayloads
    \cup {[amount |-> 1, type |-> "INCOME", accountId |-> "a3", date |-> ReqDate],
          [amount |-> 1, type |-> "EXPENSE", accountId |-> "a1", date |-> ReqDate,
           categoryId |-> "c9"]}
    \cup InvalidPayloads

\* updates: every choice of ledger keys, bodies without a ledger key, a move to
\* the account of another user, and the bodies the schema refuses
UpdatePayloads ==
  {Pick(full, S) : full \in LedgerPayloads, S \in SUBSET {"amount", "type", "accountId"}}
    \cup {[date |-> ReqDate], [categoryId |-> "c9"], [accountId |-> "a3"]}
    \cup {Pick(bad, {"amount"}) : bad \in {b \in InvalidPayloads : b.amount <= 0}}
    \cup {Pick(bad, {"type"}) : bad \in {b \in InvalidPayloads : b.type \notin TxTypes}}

TxIds == 1..MaxTx

\* ------------------------------------------------------------- the start
InitAccounts ==
  [a \in AccIds |->
     [id |-> a, userId |-> IF a = "a3" THEN "u2" ELSE "u1", isActive |-> TRUE,
      currency |-> IF a = "a2" THEN "ARS" ELSE "USD", balance |-> 0]]

\* the default categories, stored before the first request: c1 has no owner,
\* c2 is owned by u1
InitCategories ==
  [c \in {"c1", "c2"} |->
     [id |-> c, userId |-> IF c = "c2" THEN "u1" ELSE "", isDefault |-> TRUE,
      name |-> IF c = "c2" THEN "d2" ELSE "d1", type |-> "EXPENSE"]]

Init ==
  /\ accounts = InitAccounts
  /\ categories = InitCategories
  /\ transactions = << >>
  /\ nextTxId = 1
  /\ req = [p \in Procs |-> IdleReq]
  /\ subscriptions = << >>
  /\ nextSubId = 1
  /\ sched = [r \in Runs |-> IdleRun]
  /\ clock = 0
  /\ pre = Snapshot
  /\ prev = NoPrev
  /\ start = BillingSnapshot

\* a request arrives: its handler runs up to its first storage call
Begin(p, u, creates, updates) ==
  \/ \E data \in creates : CreateFindAccount(p, u, data)
  \/ \E id \in TxIds, data \in updates : UpdateFindExisting(p, u, id, data)
  \/ \E id \in TxIds : DeleteFind(p, u, id)

\* the handler goes from one storage call to the next
Continue(p) ==
  \/ CreateFindCategory(p)
  \/ CreateInsert(p)
  \/ CreateAdjust(p)
  \/ UpdateFindAccount(p)
  \/ UpdateFindCategory(p)
  \/ UpdateWrite(p)
  \/ UpdateRevert(p)
  \/ UpdateApply(p)
  \/ DeleteRow(p)
  \/ DeleteRevert(p)

\* the observer notes the tables when a request arrives and when it has
\* answered, and leaves its notes alone in between
Arrives == pre' = Snapshot /\ UNCHANGED <<prev, start>>
Goes == UNCHANGED observer
Answered(p) == pre' = Snapshot /\ prev' = Remember(req[p]) /\ UNCHANGED start

\* one request at a time, no storage failure
NextSeq ==
  \/ Begin("p1", "u1", CreatePayloads, UpdatePayloads) /\ Arrives
  \/ Continue("p1") /\ Goes
  \/ Return("p1") /\ Answered("p1")

SpecSeq == Init /\ [][NextSeq]_vars

\* subscriptions as the requests of u1 make them
StartDates == {MakeDate(2024, 1, 1), MakeDate(2024, 2, 15)}

SubscriptionPayloads ==
  [name : {"n1"}, amount : {1, MaxAmount}, billingCycle : Cycles,
   nextBillingDate : StartDates, accountId : OwnAccIds]

\* the times at which the daily job runs
RunTimes == {MakeDate(2024, 1, 1), MakeDate(2024, 2, 1)}

NoRunInProgress == \A r \in Runs : sched[r].pc \in {"idle", "done"}

\* the run goes from one storage call to the next
BillingSteps(r) ==
  \/ RunFindAccount(r)
  \/ RunCreate(r)
  \/ RunDecrement(r)
  \/ RunAdvance(r)

\* subscriptions are created and billing runs follow one another, without a
\* storage failure and without a request in between the steps of a run
NextBilling ==
  \/ /\ NoRunInProgress
     /\ \E data \in SubscriptionPayloads : SubscriptionCreate("u1", data)
     /\ UNCHANGED observer
  \/ /\ \E now \in RunTimes : RunFindDue("r1", now)
     /\ start' = BillingSnapshot
     /\ UNCHANGED <<pre, prev>>
  \/ BillingSteps("r1") /\ UNCHANGED observer

SpecBilling == Init /\ [][NextBilling]_vars

\* ------------------------------------------------- the ledger, as specified
\* delta(type, amount) of the specification
Signed(type, amount) ==
  CASE type = "INCOME" -> amount
    [] type = "EXPENSE" -> -amount
    [] OTHER -> 0

\* the sum of the contributions of the rows stored on account a
LedgerSum(txs, a) ==
  LET RECURSIVE Sum(_)
      Sum(S) == IF S = {} THEN 0
                ELSE LET i == CHOOSE j \in S : TRUE
                     IN Signed(txs[i].type, txs[i].amount) + Sum(S \ {i})
  IN Sum({i \in DOMAIN txs : txs[i].accountId = a})

Quiet == \A p \in Procs : req[p].pc \in {"idle", "done"}

Balanced == \A a \in DOMAIN accounts : accounts[a].balance = LedgerSum(transactions, a)

SameBalances(accs1, accs2) ==
  /\ DOMAIN accs1 = DOMAIN accs2
  /\ \A a \in DOMAIN accs1 : accs1[a].balance = accs2[a].balance

\* request p has answered with success
Succeeded(p, op) ==
  /\ req[p].pc = "done"
  /\ req[p].op = op
  /\ req[p].status \in {Ok, Created}

\* the ledger fields an update request asks for, given the row as it was
AskedType(data, old) == IF "type" \in DOMAIN data THEN data.type ELSE old.type
AskedAmount(data, old) == IF "amount" \in DOMAIN data THEN data.amount ELSE old.amount
AskedAccount(data, old) == IF "accountId" \in DOMAIN data THEN data.accountId ELSE old.accountId

\* ------------------------------------------- more specifications
\* the run is quiet too
AllQuiet == Quiet /\ NoRunInProgress

\* one request at a time, and any awaited storage call may throw; once the
\* ledger is broken no further request is looked at
NextFail ==
  \/ Balanced /\ Begin("p1", "u1", CreatePayloads, UpdatePayloads) /\ Arrives
  \/ Continue("p1") /\ Goes
  \/ Return("p1") /\ Answered("p1")
  \/ StorageFails("p1") /\ Goes

SpecFail == Init /\ [][NextFail]_vars

\* bodies of the requests that race: one ledger key each
RaceCreates ==
  [amount : 1..MaxAmount, type : TxTypes, accountId : {"a1"}, date : {ReqDate}]
    \cup {[amount |-> 1, type |-> "EXPENSE", accountId |-> "a1", date |-> ReqDate,
           categoryId |-> "c9"]}

RaceUpdates ==
  {[amount |-> k] : k \in 1..MaxAmount}
    \cup {[type |-> t] : t \in TxTypes}
    \cup {[accountId |-> a] : a \in OwnAccIds}
    \cup {[categoryId |-> "c9"]}

\* two requests of u1 at a time, their storage calls interleaved in every
\* order, no storage failure; the responses are collected when both have
\* answered, and once the ledger is broken no further request is looked at
NextRace ==
  \/ \E p \in Procs : Begin(p, "u1", RaceCreates, RaceUpdates) /\ Goes
  \/ \E p \in Procs : Continue(p) /\ Goes
  \/ \E p \in Procs : Quiet /\ Balanced /\ Return(p) /\ Goes

SpecRace == Init /\ [][NextRace]_vars

\* subscriptions charged to a1 and due at the one time the job runs
RaceSubscriptions ==
  [name : {"n1"}, amount : 1..MaxAmount, billingCycle : {"MONTHLY"},
   nextBillingDate : {MakeDate(2024, 1, 1)}, accountId : {"a1"}]

RaceRunTimes == {MakeDate(2024, 1, 1)}

\* bodies of the creates that adjust the balance of a1
AdjustCreates ==
  [amount : 1..MaxAmount, type : {"INCOME", "EXPENSE"}, accountId : {"a1"},
   date : {ReqDate}]

\* creates and deletes of two request processes and a billing run of one
\* subscription, all on account a1, their storage calls interleaved in every
\* order, no storage failure
NextAdjust ==
  \/ /\ AllQuiet
     /\ subscriptions = << >>
     /\ \E data \in RaceSubscriptions : SubscriptionCreate("u1", data)
     /\ Goes
  \/ \E p \in Procs, data \in AdjustCreates : CreateFindAccount(p, "u1", data) /\ Goes
  \/ \E p \in Procs, id \in TxIds : DeleteFind(p, "u1", id) /\ Goes
  \/ \E p \in Procs : CreateInsert(p) /\ Goes
  \/ \E p \in Procs : CreateAdjust(p) /\ Goes
  \/ \E p \in Procs : DeleteRow(p) /\ Goes
  \/ \E p \in Procs : DeleteRevert(p) /\ Goes
  \/ \E p \in Procs : Quiet /\ Return(p) /\ Goes
  \/ \E now \in RaceRunTimes : RunFindDue("r1", now) /\ Goes
  \/ BillingSteps("r1") /\ Goes

SpecAdjust == Init /\ [][NextAdjust]_vars

C5_TransferNoEffect ==
  \A p \in Procs :
    \/ Succeeded(p, "create") /\ req[p].data.type = "TRANSFER"
    \/ Succeeded(p, "delete") /\ req[p].existing.type = "TRANSFER"
    \/ /\ Succeeded(p, "update")
       /\ req[p].existing.type = "TRANSFER"
       /\ AskedType(req[p].data, req[p].existing) = "TRANSFER"
    => SameBalances(accounts, pre.accounts)

\* C5 witness: a TRANSFER row got another amount and stayed a TRANSFER.
C5_Witness ==
  /\ Succeeded("p1", "update")
  /\ req["p1"].existing.type = "TRANSFER"
  /\ "amount" \in DOMAIN req["p1"].data
  /\ req["p1"].data.amount # req["p1"].existing.amount
  /\ "type" \notin DOMAIN req["p1"].data
  /\ transactions[req["p1"].id].amount = req["p1"].data.amount

\* C6: a successful delete of the row the previous request created leaves the
\* balance of the row's account as it was before the create.
C6_DeleteInvertsCreate ==
  \A p \in Procs :
    Succeeded(p, "delete") /\ prev.tx = req[p].id
      => accounts[prev.acc].balance = prev.bal

\* C6 witness: an EXPENSE row was created and then deleted.
C6_Witness ==
  /\ Succeeded("p1", "delete")
  /\ prev.tx = req["p1"].id
  /\ req["p1"].existing.type = "EXPENSE"
  /\ req["p1"].id \notin DOMAIN transactions

\* C7: a successful update that keeps the account changes its balance by
\* delta(new type, new amount) - delta(old type, old amount), absent fields
\* keeping their old values, and stores those values on the row.
C7_UpdateSameAccount ==
  \A p \in Procs :
    LET r == req[p]
        old == pre.transactions[r.id]
        a == old.accountId
    IN Succeeded(p, "update") /\ AskedAccount(r.data, old) = a
         => /\ accounts[a].balance - pre.accounts[a].balance
                 = Signed(AskedType(r.data, old), AskedAmount(r.data, old))
                     - Signed(old.type, old.amount)
            /\ transactions[r.id].type = AskedType(r.data, old)
            /\ transactions[r.id].amount = AskedAmount(r.data, old)

\* C7 witness: a TRANSFER row became an INCOME with its old amount.
C7_Witness ==
  /\ Succeeded("p1", "update")
  /\ req["p1"].existing.type = "TRANSFER"
  /\ req["p1"].data = [type |-> "INCOME"]
  /\ accounts[req["p1"].existing.accountId].balance
       = pre.accounts[req["p1"].existing.accountId].balance + req["p1"].existing.amount

\* C8: a successful update that moves a row from account A to another account B
\* takes the old contribution from A and adds the new contribution to B.
C8_MoveBetweenAccounts ==
  \A p \in Procs :
    LET r == req[p]
        old == pre.transactions[r.id]
        A == old.accountId
        B == AskedAccount(r.data, old)
    IN Succeeded(p, "update") /\ A # B
         => /\ accounts[A].balance = pre.accounts[A].balance - Signed(old.type, old.amount)
            /\ accounts[B].balance = pre.accounts[B].balance
                 + Signed(AskedType(r.data, old), AskedAmount(r.data, old))
            /\ transactions[r.id].accountId = B

\* C8 witness: an INCOME moved from the USD account to the ARS account as an
\* EXPENSE of another amount.
C8_Witness ==
  /\ Succeeded("p1", "update")
  /\ req["p1"].existing.accountId = "a1" /\ req["p1"].existing.type = "INCOME"
  /\ req["p1"].data = [amount |-> 2, type |-> "EXPENSE", accountId |-> "a2"]
  /\ req["p1"].existing.amount = 1
  /\ accounts["a1"].currency # accounts["a2"].currency
  /\ accounts["a2"].balance = pre.accounts["a2"].balance - 2

\* C9: a successful update after which amount, type and account are what they
\* were leaves every balance as it was.
C9_UpdateWithoutLedgerChange ==
  \A p \in Procs :
    LET r == req[p]
        old == pre.transactions[r.id]
    IN /\ Succeeded(p, "update")
       /\ AskedType(r.data, old) = old.type
       /\ AskedAmount(r.data, old) = old.amount
       /\ AskedAccount(r.data, old) = old.accountId
       => SameBalances(accounts, pre.accounts)

\* C9 witness: the request sent the amount and the type the EXPENSE row had.
C9_Witness ==
  /\ Succeeded("p1", "update")
  /\ req["p1"].existing.type = "EXPENSE"
  /\ req["p1"].data = [amount |-> req["p1"].existing.amount, type |-> "EXPENSE"]
  /\ accounts["a1"].balance < 0

\* the same day of the month one cycle later (for days every month has)
OneCycleLater(sub) ==
  LET y == YearOf(sub.nextBillingDate)
      m == MonthOf(sub.nextBillingDate)
      d == DayOf(sub.nextBillingDate)
  IN IF sub.billingCycle = "YEARLY" THEN MakeDate(y + 1, m, d)
     ELSE IF m = 12 THEN MakeDate(y + 1, 1, d) ELSE MakeDate(y, m + 1, d)

\* the subscriptions of table subs that are due at now and whose account exists
DueAt(subs, accs, now) ==
  {i \in DOMAIN subs : /\ subs[i].isActive
                        /\ subs[i].nextBillingDate <= now
                        /\ subs[i].accountId \in DOMAIN accs}

\* what the subscriptions S of table subs charge to account a
Charged(subs, S, a) ==
  LET RECURSIVE Sum(_)
      Sum(T) == IF T = {} THEN 0
                ELSE LET i == CHOOSE j \in T : TRUE
                     IN subs[i].amount + Sum(T \ {i})
  IN Sum({i \in S : subs[i].accountId = a})

\* the rows stored since the snapshot that carry subscription i
BilledSince(from, i) ==
  {t \in DOMAIN transactions \ DOMAIN from.transactions :
     SubscriptionOf(transactions[t]) = i}

\* C10: when a billing run without failure has ended, every subscription that
\* was active and due at its start (billing day 1..28, account stored) has
\* exactly one new EXPENSE row of its amount on its account and its
\* nextBillingDate one cycle later, and every account has lost exactly the
\* amounts of its due subscriptions.
C10_BillingDueSubscription ==
  \A r \in {"r1"} :
    sched[r].pc = "done" =>
      LET Due == DueAt(start.subscriptions, start.accounts, sched[r].now)
      IN /\ \A i \in Due :
              LET sub == start.subscriptions[i] IN
              /\ Cardinality(BilledSince(start, i)) = 1
              /\ \A t \in BilledSince(start, i) :
                   /\ transactions[t].type = "EXPENSE"
                   /\ transactions[t].amount = sub.amount
                   /\ transactions[t].accountId = sub.accountId
              /\ subscriptions[i].nextBillingDate = OneCycleLater(sub)
         /\ \A a \in DOMAIN accounts :
              accounts[a].balance
                = start.accounts[a].balance - Charged(start.subscriptions, Due, a)
         /\ Cardinality(DOMAIN transactions \ DOMAIN start.transactions) = Cardinality(Due)

\* C10 witness: a MONTHLY subscription of 2 due on 2024-01-01 was billed by the
\* run of 2024-01-01: one row of 2, the balance 2 lower, the next date 2024-02-01.
C10_Witness ==
  /\ sched["r1"].pc = "done"
  /\ sched["r1"].now = MakeDate(2024, 1, 1)
  /\ 1 \in DOMAIN start.subscriptions
  /\ start.subscriptions[1]
       = [id |-> 1, userId |-> "u1", name |-> "n1", amount |-> 2, billingCycle |-> "MONTHLY",
          nextBillingDate |-> MakeDate(2024, 1, 1), accountId |-> "a1",
          categoryId |-> "", isActive |-> TRUE]
  /\ Cardinality(BilledSince(start, 1)) = 1
  /\ accounts["a1"].balance = start.accounts["a1"].balance - 2
  /\ subscriptions[1].nextBillingDate = MakeDate(2024, 2, 1)

\* C2: a create, update or delete that answers with an error has left the
\* transaction rows and the balances exactly as it found them.
C2_AtomicOnFailure ==
  \A p \in Procs :
    req[p].pc = "done" /\ req[p].status = ServerError
      => /\ transactions = pre.transactions
         /\ SameBalances(accounts, pre.accounts)

\* C3: once two requests on the same transaction (update with update, update
\* with delete) have both answered, every balance is the sum of the
\* contributions of the rows then stored on the account.
C3_SameTransactionRace ==
  /\ req["p1"].pc = "done" /\ req["p2"].pc = "done"
  /\ req["p1"].op = "update" /\ req["p2"].op \in {"update", "delete"}
  /\ req["p1"].id = req["p2"].id
  => Balanced

\* C4: creates, deletes and the billing run adjust the balance of one account
\* with their storage calls interleaved in any order; when all have ended the
\* balance is the starting balance plus every change applied, that is the sum
\* of the contributions of the rows stored: no adjustment is lost.
C4_NoLostUpdate == AllQuiet => Balanced

\* C4 witness: a create and the billing run have both stored their row and each
\* is about to adjust the balance of a1, which the create read before the run
\* started.
C4_Witness ==
  /\ req["p1"].pc = "c_balance" /\ req["p1"].data.accountId = "a1"
  /\ sched["r1"].pc = "s_balance" /\ sched["r1"].cur.accountId = "a1"
  /\ req["p1"].account.balance = accounts["a1"].balance

\* ------------------------------------------- specifications of the scheduler
AllRunsIdle == \A r \in Runs : sched[r].pc = "idle"
AllRunsDone == \A r \in Runs : sched[r].pc = "done"

\* the observer notes the tables when a run starts while no other is under way
RunStarts ==
  /\ start' = (IF AllRunsIdle THEN BillingSnapshot ELSE start)
  /\ UNCHANGED <<pre, prev>>

\* subscriptions due on 2024-01-01 are created, then the job fires twice for
\* that time and the storage calls of the two runs interleave in every order
\* (the second run starts before the first has ended); no storage failure
NextOverlap ==
  \/ /\ AllRunsIdle
     /\ \E data \in RaceSubscriptions : SubscriptionCreate("u1", data)
     /\ Goes
  \/ \E r \in Runs, now \in RaceRunTimes :
       /\ sched[r].pc = "idle"
       /\ \A q \in Runs : sched[q].pc # "done"
       /\ RunFindDue(r, now)
       /\ RunStarts
  \/ \E r \in Runs : BillingSteps(r) /\ Goes
  \/ \E r \in Runs : AllRunsDone /\ RunReturn(r) /\ Goes

SpecOverlap == Init /\ [][NextOverlap]_vars

\* every subscription of the snapshot that was due at now has, since the
\* snapshot, one row, one decrement and one advance
BilledExactlyOnce(from, now) ==
  LET Due == DueAt(from.subscriptions, from.accounts, now)
  IN /\ \A i \in Due :
          /\ Cardinality(BilledSince(from, i)) = 1
          /\ subscriptions[i].nextBillingDate = OneCycleLater(from.subscriptions[i])
     /\ \A a \in DOMAIN accounts :
          accounts[a].balance = from.accounts[a].balance - Charged(from.subscriptions, Due, a)

\* C11: when two runs of the job for the same time, the second started before
\* the first had ended, have both ended, every subscription that was due when
\* the first started has exactly one new row, its account has been charged its
\* amount once and its nextBillingDate is one cycle later.
C11_NoDoubleBilling ==
  AllRunsDone /\ sched["r1"].now = sched["r2"].now
    => BilledExactlyOnce(start, sched["r1"].now)

\* subscriptions due at the one time the job runs, on the accounts of u1
FailSubscriptions ==
  [name : {"n1"}, amount : 1..MaxAmount, billingCycle : {"MONTHLY"},
   nextBillingDate : {MakeDate(2024, 1, 1)}, accountId : OwnAccIds]

\* runs follow one another and any awaited storage call of the loop body may
\* throw; no further run starts once MaxSubs + 1 rows have been stored
NextBillFail ==
  \/ /\ NoRunInProgress
     /\ \E data \in FailSubscriptions : SubscriptionCreate("u1", data)
     /\ Goes
  \/ /\ nextTxId <= MaxSubs + 1
     /\ \E now \in RaceRunTimes : RunFindDue("r1", now)
     /\ start' = BillingSnapshot
     /\ UNCHANGED <<pre, prev>>
  \/ BillingSteps("r1") /\ Goes
  \/ RunStepFails("r1") /\ Goes
  \/ RunReturn("r1") /\ Goes

SpecBillFail == Init /\ [][NextBillFail]_vars

\* the amounts of the rows stored on account a since the snapshot
AmountSince(from, a) ==
  LET RECURSIVE Sum(_)
      Sum(T) == IF T = {} THEN 0
                ELSE LET t == CHOOSE j \in T : TRUE
                     IN transactions[t].amount + Sum(T \ {t})
  IN Sum({t \in DOMAIN transactions \ DOMAIN from.transactions :
            transactions[t].accountId = a})

\* C12: when a run in which storage steps may fail has ended, every
\* subscription has either its new row, the decrement and the advance, or none
\* of the three: the rows stored since the run started are matched by the
\* balances and by the advanced dates.
C12_PerSubscriptionAtomic ==
  sched["r1"].pc = "done" =>
    /\ \A i \in DOMAIN start.subscriptions :
         LET advanced ==
               subscriptions[i].nextBillingDate # start.subscriptions[i].nextBillingDate
         IN \/ Cardinality(BilledSince(start, i)) = 1 /\ advanced
            \/ BilledSince(start, i) = {} /\ ~advanced
    /\ \A a \in DOMAIN accounts :
         accounts[a].balance = start.accounts[a].balance - AmountSince(start, a)

\* C13: over any sequence of runs, with storage steps that may fail, no two
\* rows carry the same subscription id and the same billing date.
C13_OneRowPerBillingDate ==
  \A t1, t2 \in DOMAIN transactions :
    /\ SubscriptionOf(transactions[t1]) # 0
    /\ SubscriptionOf(transactions[t1]) = SubscriptionOf(transactions[t2])
    /\ transactions[t1].date = transactions[t2].date
    => t1 = t2

\* subscriptions of the smallest and of the largest amount, due at the one
\* time the job runs
IsolateSubscriptions ==
  [name : {"n1"}, amount : {1, MaxAmount}, billingCycle : {"MONTHLY"},
   nextBillingDate : {MakeDate(2024, 1, 1)}, accountId : OwnAccIds]

\* the subscriptions are created, then the job runs and any awaited storage
\* call of the loop body may throw; a run starts while no row has been stored
NextIsolate ==
  \/ /\ clock = 0
     /\ \E data \in IsolateSubscriptions : SubscriptionCreate("u1", data)
     /\ Goes
  \/ /\ nextTxId = 1
     /\ \E now \in RaceRunTimes : RunFindDue("r1", now)
     /\ start' = BillingSnapshot
     /\ UNCHANGED <<pre, prev>>
  \/ BillingSteps("r1") /\ Goes
  \/ RunStepFails("r1") /\ Goes
  \/ RunReturn("r1") /\ Goes

SpecIsolate == Init /\ [][NextIsolate]_vars

\* the accounts of the subscriptions the run has written an error about
TroubledAccounts(from, logged) ==
  {from.subscriptions[i].accountId : i \in logged \cap DOMAIN from.subscriptions}

\* C18: when a run has ended, every subscription that was due at its start and
\* about which no error was written has its one new row and its date one cycle
\* later, and every account that no failed subscription charges has lost the
\* amounts of its due subscriptions: a failure for one subscription neither
\* stops the loop nor takes back what was stored for the others.
C18_FailureIsolation ==
  sched["r1"].pc = "done" =>
    LET Due == DueAt(start.subscriptions, start.accounts, sched["r1"].now)
        logged == sched["r1"].logged
    IN /\ \A i \in Due \ logged :
            /\ Cardinality(BilledSince(start, i)) = 1
            /\ subscriptions[i].nextBillingDate = OneCycleLater(start.subscriptions[i])
       /\ \A a \in DOMAIN accounts \ TroubledAccounts(start, logged) :
            accounts[a].balance
              = start.accounts[a].balance - Charged(start.subscriptions, Due, a)

\* C18 witness: of two subscriptions due in one run, the one on a1 failed after
\* its row was stored (the row stays, the balance does not move) and the one on
\* a2 was billed in full, whichever came first.
C18_Witness ==
  /\ sched["r1"].pc = "done"
  /\ sched["r1"].logged = {1}
  /\ DOMAIN start.subscriptions = {1, 2}
  /\ start.subscriptions[1].accountId = "a1" /\ start.subscriptions[2].accountId = "a2"
  /\ Cardinality(BilledSince(start, 1)) = 1
  /\ accounts["a1"].balance = start.accounts["a1"].balance
  /\ Cardinality(BilledSince(start, 2)) = 1
  /\ accounts["a2"].balance = start.accounts["a2"].balance - start.subscriptions[2].amount
  /\ subscriptions[2].nextBillingDate = MakeDate(2024, 2, 1)

\* subscriptions of u1, due or not at the time the job runs
DueSubscriptionPayloads ==
  [name : {"n1"}, amount : {MaxAmount}, billingCycle : {"MONTHLY"},
   nextBillingDate : StartDates, accountId : OwnAccIds]

\* what u1 does to the subscriptions and accounts between two runs: a
\* subscription is switched off or on again, the ARS account is deleted
SwitchPayloads == {[isActive |-> FALSE], [isActive |-> TRUE]}
DeletedAccIds == {"a2"}
DueRunTimes == {MakeDate(2024, 2, 1)}

\* requests on subscriptions and accounts while no run is under way, and runs
\* of the job without a storage failure
\* while no run is under way the observer's snapshot follows the tables
Follows == start' = BillingSnapshot' /\ UNCHANGED <<pre, prev>>

NextDue ==
  \/ /\ AllRunsIdle
     /\ \E data \in DueSubscriptionPayloads : SubscriptionCreate("u1", data)
     /\ Follows
  \/ /\ AllRunsIdle
     /\ \E id \in 1..MaxSubs, data \in SwitchPayloads : SubscriptionUpdate("u1", id, data)
     /\ Follows
  \/ /\ AllRunsIdle
     /\ \E id \in DeletedAccIds : AccountDelete("u1", id)
     /\ Follows
  \/ /\ sched["r1"].pc = "idle"
     /\ \E now \in DueRunTimes : RunFindDue("r1", now)
     /\ Goes
  \/ BillingSteps("r1") /\ Goes
  \/ RunReturn("r1") /\ Follows

SpecDue == Init /\ [][NextDue]_vars

\* the run is at work on subscription i
AtWorkOn(r, i) ==
  sched[r].pc \in {"s_create", "s_balance", "s_advance"} /\ sched[r].cur.id = i

\* C14: from its start to its end a run stores no row for, is never at work
\* on, and leaves the stored row of every subscription that at its start was
\* inactive or had its nextBillingDate after now; when it has ended the
\* balances have lost the amounts of the due subscriptions only.
C14_DuePredicate ==
  sched["r1"].pc # "idle" =>
    LET now == sched["r1"].now
        NotDue == {i \in DOMAIN start.subscriptions :
                     \/ ~start.subscriptions[i].isActive
                     \/ start.subscriptions[i].nextBillingDate > now}
        Due == DueAt(start.subscriptions, start.accounts, now)
    IN /\ \A i \in NotDue :
            /\ BilledSince(start, i) = {}
            /\ ~AtWorkOn("r1", i)
            /\ i \in DOMAIN subscriptions
            /\ subscriptions[i] = start.subscriptions[i]
       /\ sched["r1"].pc = "done" =>
            \A a \in DOMAIN accounts :
              accounts[a].balance
                = start.accounts[a].balance - Charged(start.subscriptions, Due, a)

\* C14 witness: a run has ended that found subscription 1 switched off with a
\* date in the past and subscription 2 active and due; only 2 was billed.
C14_Witness ==
  /\ sched["r1"].pc = "done"
  /\ DOMAIN start.subscriptions = {1, 2}
  /\ ~start.subscriptions[1].isActive
  /\ start.subscriptions[1].nextBillingDate <= sched["r1"].now
  /\ start.subscriptions[2].isActive
  /\ start.subscriptions[2].nextBillingDate <= sched["r1"].now
  /\ BilledSince(start, 1) = {}
  /\ Cardinality(BilledSince(start, 2)) = 1
  /\ subscriptions[1] = start.subscriptions[1]

\* the subscriptions of the snapshot whose account is not stored
Orphans(from) ==
  {i \in DOMAIN from.subscriptions : from.subscriptions[i].accountId \notin DOMAIN from.accounts}

\* C19: from its start to its end a run stores no row for and leaves the
\* stored row of every subscription whose account does not exist; when it has
\* ended it has written an error about each such subscription that was due,
\* no balance has moved on its behalf, and the other due subscriptions have
\* been billed.
C19_MissingAccount ==
  sched["r1"].pc # "idle" =>
    LET now == sched["r1"].now
        Due == DueAt(start.subscriptions, start.accounts, now)
    IN /\ \A i \in Orphans(start) :
            /\ BilledSince(start, i) = {}
            /\ i \in DOMAIN subscriptions
            /\ subscriptions[i] = start.subscriptions[i]
       /\ sched["r1"].pc = "done" =>
            /\ \A i \in Orphans(start) :
                 start.subscriptions[i].isActive /\ start.subscriptions[i].nextBillingDate <= now
                   => i \in sched["r1"].logged
            /\ \A i \in Due : Cardinality(BilledSince(start, i)) = 1
            /\ \A a \in DOMAIN accounts :
                 accounts[a].balance = start.accounts[a].balance - AmountSince(start, a)

\* C19 witness: the account of subscription 1 was deleted before the run; the
\* run skipped 1 and billed subscription 2.
C19_Witness ==
  /\ sched["r1"].pc = "done"
  /\ DOMAIN start.subscriptions = {1, 2}
  /\ 1 \in Orphans(start)
  /\ sched["r1"].logged = {1}
  /\ BilledSince(start, 1) = {}
  /\ Cardinality(BilledSince(start, 2)) = 1
  /\ subscriptions[1].nextBillingDate = start.subscriptions[1].nextBillingDate

\* C15: a run stores at most one row for a subscription; when it has ended, a
\* subscription that at its start was due and more than a cycle behind has
\* exactly one new row, its nextBillingDate one cycle later, and is still due.
C15_OneCyclePerRun ==
  sched["r1"].pc # "idle" =>
    LET now == sched["r1"].now
        Due == DueAt(start.subscriptions, start.accounts, now)
        Behind == {i \in Due : OneCycleLater(start.subscriptions[i]) <= now}
    IN /\ \A i \in DOMAIN start.subscriptions : Cardinality(BilledSince(start, i)) <= 1
       /\ sched["r1"].pc = "done" =>
            \A i \in Behind :
              /\ Cardinality(BilledSince(start, i)) = 1
              /\ subscriptions[i].nextBillingDate = OneCycleLater(start.subscriptions[i])
              /\ subscriptions[i].isActive
              /\ subscriptions[i].nextBillingDate <= now

\* C15 witness: the run of 2024-02-01 found a MONTHLY subscription at
\* 2024-01-01; it has ended with one row for it and the date 2024-02-01, which
\* the same run time still reaches.
C15_Witness ==
  /\ sched["r1"].pc = "done"
  /\ sched["r1"].now = MakeDate(2024, 2, 1)
  /\ 1 \in DOMAIN start.subscriptions
  /\ start.subscriptions[1].billingCycle = "MONTHLY"
  /\ start.subscriptions[1].nextBillingDate = MakeDate(2024, 1, 1)
  /\ Cardinality(BilledSince(start, 1)) = 1
  /\ subscriptions[1].nextBillingDate = MakeDate(2024, 2, 1)
  /\ subscriptions[1].nextBillingDate <= sched["r1"].now

\* C16: every step that changes the nextBillingDate of a subscription writes
\* the date it had plus one month (MONTHLY) or plus one year (YEARLY), whatever
\* the time of the run.
C16_AdvanceFromSchedule ==
  [][\A i \in DOMAIN subscriptions \cap DOMAIN subscriptions' :
       subscriptions'[i].nextBillingDate # subscriptions[i].nextBillingDate
         => subscriptions'[i].nextBillingDate = OneCycleLater(subscriptions[i])]_vars

\* C16 witness: the run of 2024-02-01 has moved a YEARLY subscription from
\* 2024-01-01 to 2025-01-01.
C16_Witness ==
  /\ sched["r1"].pc = "done"
  /\ sched["r1"].now = MakeDate(2024, 2, 1)
  /\ 1 \in DOMAIN start.subscriptions
  /\ start.subscriptions[1].billingCycle = "YEARLY"
  /\ start.subscriptions[1].nextBillingDate = MakeDate(2024, 1, 1)
  /\ subscriptions[1].nextBillingDate = MakeDate(2025, 1, 1)

\* C17: every row a run stores is an EXPENSE of the subscription's amount,
\* dated at the subscription's nextBillingDate, in the currency of the
\* subscription's account, with the subscription's owner, account and
\* category, and with the subscription's id, name and cycle as metadata.
C17_EmittedRowShape ==
  [][\A t \in DOMAIN transactions' \ DOMAIN transactions :
       LET row == transactions'[t]
           i == SubscriptionOf(row)
       IN /\ i \in DOMAIN subscriptions
          /\ row = [userId |-> subscriptions[i].userId,
                    accountId |-> subscriptions[i].accountId,
                    type |-> "EXPENSE",
                    amount |-> subscriptions[i].amount,
                    currency |-> accounts[subscriptions[i].accountId].currency,
                    categoryId |-> subscriptions[i].categoryId,
                    date |-> subscriptions[i].nextBillingDate,
                    metadata |-> [subscriptionId |-> i,
                                  subscriptionName |-> subscriptions[i].name,
                                  billingCycle |-> subscriptions[i].billingCycle]]]_vars

\* C17 witness: the run of 2024-02-01 has stored, for a YEARLY subscription on
\* the ARS account that was due on 2024-01-01, a row in ARS dated 2024-01-01.
C17_Witness ==
  /\ sched["r1"].pc = "s_balance"
  /\ sched["r1"].now = MakeDate(2024, 2, 1)
  /\ \E t \in DOMAIN transactions :
       /\ SubscriptionOf(transactions[t]) = sched["r1"].cur.id
       /\ transactions[t].currency = "ARS"
       /\ transactions[t].date = MakeDate(2024, 1, 1)
       /\ transactions[t].metadata.billingCycle = "YEARLY"
       /\ transactions[t].amount = MaxAmount

\* ------------------------------------------------ requests that find nothing
\* bodies naming an own account, the account of the other user and an account
\* that was never stored, and a category that is not stored
NamedAccIds == AccIds \cup {"a9"}

NotFoundCreates ==
  [amount : {MaxAmount}, type : {"EXPENSE"}, accountId : NamedAccIds, date : {ReqDate}]
    \cup {[amount |-> 1, type |-> "INCOME", accountId |-> a, date |-> ReqDate,
           categoryId |-> "c9"] : a \in {"a1", "a3"}}

NotFoundUpdates ==
  {[amount |-> 1]}
    \cup {[accountId |-> a] : a \in NamedAccIds}
    \cup {[categoryId |-> "c9"]}

\* requests of both users, one at a time and without a storage failure; in
\* between u1 deletes accounts (one with rows becomes inactive, one without is gone)
NextNotFound ==
  \/ \E u \in Users : Begin("p1", u, NotFoundCreates, NotFoundUpdates) /\ Arrives
  \/ Continue("p1") /\ Goes
  \/ Return("p1") /\ Answered("p1")
  \/ /\ req["p1"].pc = "idle"
     /\ \E id \in OwnAccIds : AccountDelete("u1", id)
     /\ pre' = Snapshot'
     /\ UNCHANGED <<prev, start>>

SpecNotFound == Init /\ [][NextNotFound]_vars

\* the account is stored, belongs to u and is active
UsableAccount(accs, id, u) ==
  id \in DOMAIN accs /\ accs[id].userId = u /\ accs[id].isActive

\* the category is stored and is u's or a default one
KnownCategory(id, u) ==
  id \in DOMAIN categories /\ (categories[id].userId = u \/ categories[id].isDefault)

\* the row is stored and belongs to u
OwnRow(txs, id, u) == id \in DOMAIN txs /\ txs[id].userId = u

\* what the request r, whose body the schema accepts, names and the tables
\* (as the request found them) do not hold
NamesMissing(r) ==
  LET data == r.data
      u == r.userId
  IN CASE r.op = "create" ->
            /\ CreateSchemaOk(data)
            /\ \/ ~UsableAccount(pre.accounts, data.accountId, u)
               \/ "categoryId" \in DOMAIN data /\ ~KnownCategory(data.categoryId, u)
       [] r.op = "update" ->
            /\ UpdateSchemaOk(data)
            /\ \/ ~OwnRow(pre.transactions, r.id, u)
               \/ /\ "accountId" \in DOMAIN data
                  /\ data.accountId # pre.transactions[r.id].accountId
                  /\ ~UsableAccount(pre.accounts, data.accountId, u)
               \/ "categoryId" \in DOMAIN data /\ ~KnownCategory(data.categoryId, u)
       [] r.op = "delete" -> ~OwnRow(pre.transactions, r.id, u)
       [] OTHER -> FALSE

\* C20: a create naming an account that is missing, inactive or another
\* user's, or a missing category; an update or delete naming a row that is
\* missing or another user's; an update naming a new account or a category
\* that is missing: each answers not-found, and a request that has answered
\* not-found has left every row and every account as it found them.
C20_NotFoundNoEffect ==
  \A p \in Procs :
    req[p].pc = "done" =>
      /\ NamesMissing(req[p]) => req[p].status = NotFound
      /\ req[p].status = NotFound
           => transactions = pre.transactions /\ accounts = pre.accounts

\* C20 witness: u2 asked to update a row of u1 and was answered not-found.
C20_Witness ==
  /\ req["p1"].pc = "done"
  /\ req["p1"].op = "update"
  /\ req["p1"].userId = "u2"
  /\ req["p1"].id \in DOMAIN transactions
  /\ transactions[req["p1"].id].userId = "u1"
  /\ req["p1"].status = NotFound
  /\ transactions = pre.transactions

\* ---------------------------------------------------- refused request bodies
\* the body carries an amount that is zero or negative, or a type that is not
\* one of INCOME, EXPENSE, TRANSFER
Malformed(data) ==
  \/ "amount" \in DOMAIN data /\ data.amount <= 0
  \/ "type" \in DOMAIN data /\ data.type \notin {"INCOME", "EXPENSE", "TRANSFER"}

\* C21: a create or update whose amount is zero or negative or whose type is
\* not INCOME, EXPENSE or TRANSFER does not answer with success and leaves
\* every row and every account as it found them; every stored row has an
\* amount above zero and one of the three types.
C21_ValidationBeforeEffect ==
  /\ \A p \in Procs :
       req[p].pc = "done" /\ req[p].op \in {"create", "update"} /\ Malformed(req[p].data)
         => /\ req[p].status \notin {Ok, Created}
            /\ transactions = pre.transactions
            /\ accounts = pre.accounts
  /\ \A p \in Procs :
       Malformed(req[p].data) => req[p].pc \in {"idle", "done"}
  /\ \A t \in DOMAIN transactions :
       transactions[t].amount > 0 /\ transactions[t].type \in {"INCOME", "EXPENSE", "TRANSFER"}

\* C21 witness: an update of a stored EXPENSE row to the amount 0 was refused;
\* the row and the balance of its account are what they were.
C21_Witness ==
  /\ req["p1"].pc = "done"
  /\ req["p1"].op = "update"
  /\ req["p1"].data = [amount |-> 0]
  /\ req["p1"].id \in DOMAIN transactions
  /\ transactions[req["p1"].id].type = "EXPENSE"
  /\ transactions[req["p1"].id].amount = MaxAmount
  /\ accounts["a1"].balance = -MaxAmount
  /\ req["p1"].status = ServerError

\* C22: a create or update with a malformed body answers with a status of the
\* 4xx family, as a request that names a missing row does (404), and so can be
\* told from the answer to a storage failure (500).
C22_TypedErrors ==
  \A p \in Procs :
    req[p].pc = "done" /\ req[p].op \in {"create", "update"} /\ Malformed(req[p].data)
      => req[p].status >= 400 /\ req[p].status < 500

\* ------------------------------------------------ requests on the accounts
\* bodies of PUT /api/accounts/:id: a balance, a currency
AccountPayloads ==
  {[balance |-> MaxAmount]} \cup {[currency |-> c] : c \in Currencies}

\* the account u1 updates
UpdatedAccIds == {"a1"}

\* creates on the two accounts of u1, and updates that move a row or change
\* its amount
AccountCreates ==
  [amount : {MaxAmount}, type : {"INCOME"}, accountId : OwnAccIds, date : {ReqDate}]

AccountMoves ==
  {[accountId |-> a] : a \in OwnAccIds} \cup {[amount |-> 1]}

\* creates and updates of transactions one at a time, and between two of them
\* u1 updates an account; no storage failure
NextAccount ==
  \/ \E data \in AccountCreates : CreateFindAccount("p1", "u1", data) /\ Arrives
  \/ \E id \in TxIds, data \in AccountMoves : UpdateFindExisting("p1", "u1", id, data) /\ Arrives
  \/ CreateInsert("p1") /\ Goes
  \/ CreateAdjust("p1") /\ Goes
  \/ UpdateFindAccount("p1") /\ Goes
  \/ UpdateWrite("p1") /\ Goes
  \/ UpdateRevert("p1") /\ Goes
  \/ UpdateApply("p1") /\ Goes
  \/ Return("p1") /\ Answered("p1")
  \/ /\ req["p1"].pc = "idle"
     /\ \E id \in UpdatedAccIds, data \in AccountPayloads : AccountUpdate("u1", id, data)
     /\ pre' = Snapshot'
     /\ UNCHANGED <<prev, start>>

SpecAccount == Init /\ [][NextAccount]_vars

\* a step of a handler of the transactions, or of a billing run, that adjusts
\* a balance
LedgerAdjustment ==
  \/ \E p \in Procs : /\ req[p].pc \in {"c_balance", "u_revert", "u_apply", "d_revert"}
                      /\ req'[p] # req[p]
  \/ \E r \in Runs : sched[r].pc = "s_balance" /\ sched'[r] # sched[r]

\* C23: every step that changes the balance of a stored account is a balance
\* adjustment of a transaction create, update or delete or of the billing run;
\* an account update does not change a balance.
C23_SingleWriter ==
  [][(\E a \in DOMAIN accounts \cap DOMAIN accounts' :
        accounts'[a].balance # accounts[a].balance) => LedgerAdjustment]_vars

\* C24: every row a create stores carries the currency its account has at that
\* time, and no step changes the currency of a stored row: not an update of
\* the row with any fields, not its move to an account of another currency,
\* not a change of the currency of its account.
C24_TransactionCurrency ==
  [][/\ \A t \in DOMAIN transactions' \ DOMAIN transactions :
          /\ transactions'[t].accountId \in DOMAIN accounts
          /\ transactions'[t].currency = accounts[transactions'[t].accountId].currency
     /\ \A t \in DOMAIN transactions \cap DOMAIN transactions' :
          transactions'[t].currency = transactions[t].currency]_vars

\* C24 witness: a row created on a1 while a1 was in USD has been moved to a2,
\* which is in ARS; the row is still in USD.
C24_Witness ==
  /\ Succeeded("p1", "update")
  /\ req["p1"].existing.accountId = "a1"
  /\ req["p1"].existing.currency = "USD"
  /\ req["p1"].data = [accountId |-> "a2"]
  /\ accounts["a2"].currency = "ARS"
  /\ transactions[req["p1"].id].accountId = "a2"
  /\ transactions[req["p1"].id].currency = "USD"

\* ------------------------------------------------------- a run that is stopped
\* the subscriptions are created, the job runs and is stopped between two
\* subscriptions, and a later run of the job follows; no storage failure
NextStop ==
  \/ /\ clock = 0
     /\ \E data \in IsolateSubscriptions : SubscriptionCreate("u1", data)
     /\ Goes
  \/ /\ AllRunsIdle
     /\ \E now \in RunTimes : RunFindDue("r1", now)
     /\ start' = BillingSnapshot
     /\ UNCHANGED <<pre, prev>>
  \/ BillingSteps("r1") /\ Goes
  \/ RunStops("r1") /\ Goes
  \/ /\ sched["r1"].pc = "stopped" /\ sched["r2"].pc = "idle"
     /\ \E now \in RunTimes : RunFindDue("r2", now)
     /\ Goes
  \/ BillingSteps("r2") /\ Goes

SpecStop == Init /\ [][NextStop]_vars

\* the subscriptions run r had found due and has not taken from its result
Remaining(r) == {sub.id : sub \in sched[r].due}

\* C25: while a run is between two subscriptions, and when it has been stopped
\* there, every due subscription it has processed has its one row and its date
\* one cycle later, every one it has not reached is as it was with no row, and
\* the balances have lost the amounts of the processed ones; when a later run
\* has ended, every subscription the stopped run had not reached has exactly
\* one row and its date one cycle later, as a run on the starting tables would
\* have left it, and every row stored since is matched by a decrement.
C25_InterruptibleRun ==
  LET Due == DueAt(start.subscriptions, start.accounts, sched["r1"].now)
      Left == Remaining("r1")
  IN /\ sched["r1"].pc \in {"s_account", "stopped"} /\ sched["r2"].pc = "idle"
          => /\ Left \subseteq Due
             /\ \A i \in Due \ Left :
                  /\ Cardinality(BilledSince(start, i)) = 1
                  /\ subscriptions[i].nextBillingDate = OneCycleLater(start.subscriptions[i])
             /\ \A i \in Left :
                  /\ BilledSince(start, i) = {}
                  /\ subscriptions[i] = start.subscriptions[i]
             /\ \A a \in DOMAIN accounts :
                  accounts[a].balance
                    = start.accounts[a].balance - Charged(start.subscriptions, Due \ Left, a)
     /\ sched["r1"].pc = "stopped" /\ sched["r2"].pc = "done"
          => /\ \A i \in Left :
                  /\ Cardinality(BilledSince(start, i)) = 1
                  /\ \A t \in BilledSince(start, i) :
                       /\ transactions[t].amount = start.subscriptions[i].amount
                       /\ transactions[t].date = start.subscriptions[i].nextBillingDate
                  /\ subscriptions[i].nextBillingDate = OneCycleLater(start.subscriptions[i])
             /\ \A a \in DOMAIN accounts :
                  accounts[a].balance = start.accounts[a].balance - AmountSince(start, a)

\* C25 witness: of two subscriptions due on 2024-01-01 the first run billed
\* one and was stopped before the other, which the later run of the same day
\* has billed; each has one row and the date 2024-02-01.
C25_Witness ==
  /\ sched["r1"].pc = "stopped" /\ sched["r2"].pc = "done"
  /\ sched["r2"].now = MakeDate(2024, 1, 1)
  /\ DOMAIN start.subscriptions = {1, 2}
  /\ Remaining("r1") = {2}
  /\ Cardinality(BilledSince(start, 1)) = 1
  /\ Cardinality(BilledSince(start, 2)) = 1
  /\ subscriptions[1].nextBillingDate = MakeDate(2024, 2, 1)
  /\ subscriptions[2].nextBillingDate = MakeDate(2024, 2, 1)
  /\ accounts["a1"].balance + accounts["a2"].balance
       = - start.subscriptions[1].amount - start.subscriptions[2].amount

\* ------------------------------------------------------------ catching up
\* one subscription of u1 on a1, its first billing date up to three cycles
\* before the time of the job, or after it
CatchUpSubscriptions ==
  [name : {"n1"}, amount : 1..MaxAmount, billingCycle : Cycles,
   nextBillingDate : {MakeDate(2022, 3, 1), MakeDate(2023, 12, 15), MakeDate(2024, 1, 15),
                      MakeDate(2024, 3, 15), MakeDate(2024, 4, 15)},
   accountId : {"a1"}]

\* the time the job reads: one of these, and the same in every run
CatchUpTimes == {MakeDate(2024, 3, 15), MakeDate(2024, 4, 1)}

\* a run of the job, from its query to its return
CatchUpRun ==
  \/ /\ sched["r1"].pc = "idle"
     /\ \E now \in CatchUpTimes : (clock = 0 \/ now = clock) /\ RunFindDue("r1", now)
     /\ start' = BillingSnapshot
     /\ UNCHANGED <<pre, prev>>
  \/ BillingSteps("r1") /\ Goes
  \/ RunReturn("r1") /\ Goes

\* one subscription is created and the job runs again and again without a
\* storage failure
NextCatchUp ==
  \/ /\ AllRunsIdle
     /\ subscriptions = << >>
     /\ \E data \in CatchUpSubscriptions : SubscriptionCreate("u1", data)
     /\ Goes
  \/ CatchUpRun

\* node-cron fires the job every day (startSubscriptionProcessor), and a run
\* whose storage calls return goes on to its end
SpecCatchUp == Init /\ [][NextCatchUp]_vars /\ WF_vars(CatchUpRun)

\* the rows stored for subscription i
RowsOf(i) == {t \in DOMAIN transactions : SubscriptionOf(transactions[t]) = i}

\* the billing dates of the rows of subscription i and its nextBillingDate make
\* one chain of consecutive cycles, one row per date, that ends at nextBillingDate
ConsecutiveDates(i) ==
  LET D == {transactions[t].date : t \in RowsOf(i)}
      All == D \cup {subscriptions[i].nextBillingDate}
  IN /\ Cardinality(D) = Cardinality(RowsOf(i))
     /\ subscriptions[i].nextBillingDate \notin D
     /\ \A d \in D :
          OneCycleLater([billingCycle |-> subscriptions[i].billingCycle,
                         nextBillingDate |-> d]) \in All

\* subscription i is stored and the time the job reads does not reach its date
CaughtUp(i) ==
  /\ i \in DOMAIN subscriptions
  /\ clock # 0
  /\ sched["r1"].pc \in {"idle", "done"}
  /\ subscriptions[i].nextBillingDate > clock

\* C26: with the time of the job fixed, the account stored and no failing step,
\* (1) whenever the run is not in the middle of a subscription the rows of a
\* subscription carry consecutive billing dates, one row per date, up to its
\* nextBillingDate; (2) a run that found the subscription due has, when it has
\* ended, stored exactly one row and moved the date by exactly one cycle; and
\* (3) a stored subscription is eventually not due.
C26_CatchUp ==
  /\ [](\A i \in DOMAIN subscriptions :
          /\ sched["r1"].pc \in {"idle", "done", "s_account"} => ConsecutiveDates(i)
          /\ sched["r1"].pc = "done"
               /\ i \in DueAt(start.subscriptions, start.accounts, sched["r1"].now)
               => /\ Cardinality(BilledSince(start, i)) = 1
                  /\ subscriptions[i].nextBillingDate = OneCycleLater(start.subscriptions[i]))
  /\ ((1 \in DOMAIN subscriptions) ~> CaughtUp(1))

\* C26 witness: a MONTHLY subscription at 2024-01-15 and the job at 2024-03-15:
\* three runs have stored the rows of 01-15, 02-15 and 03-15, and the
\* subscription, now at 2024-04-15, is not due.
C26_Witness ==
  /\ CaughtUp(1)
  /\ clock = MakeDate(2024, 3, 15)
  /\ subscriptions[1].billingCycle = "MONTHLY"
  /\ {transactions[t].date : t \in RowsOf(1)}
       = {MakeDate(2024, 1, 15), MakeDate(2024, 2, 15), MakeDate(2024, 3, 15)}
  /\ Cardinality(RowsOf(1)) = 3
  /\ subscriptions[1].nextBillingDate = MakeDate(2024, 4, 15)
  /\ accounts["a1"].balance = -3 * subscriptions[1].amount

\* C27: a step of a billing run leaves every subscription stored and changes
\* nothing of it but its nextBillingDate: not isActive, amount, billingCycle,
\* account, category, owner or name; so a subscription that is active stays
\* active over any number of runs.
C27_RunKeepsSubscription ==
  [][sched' # sched =>
       /\ DOMAIN subscriptions' = DOMAIN subscriptions
       /\ \A i \in DOMAIN subscriptions :
            subscriptions'[i]
              = [subscriptions[i] EXCEPT !.nextBillingDate = subscriptions'[i].nextBillingDate]]_vars

\* C27 witness: a MONTHLY subscription first due on 2022-03-01 has been billed
\* by 25 runs and is still stored and active, with its amount and its account.
C27_Witness ==
  /\ sched["r1"].pc = "done"
  /\ Cardinality(RowsOf(1)) = 25
  /\ subscriptions[1].isActive
  /\ subscriptions[1].billingCycle = "MONTHLY"
  /\ subscriptions[1].amount = MaxAmount
  /\ subscriptions[1].accountId = "a1"
  /\ subscriptions[1].nextBillingDate = MakeDate(2024, 4, 1)

\* ------------------------------------------------------ a run under failures
\* a storage call of the loop body returns or throws
CompleteSteps ==
  \/ BillingSteps("r1") /\ Goes
  \/ RunStepFails("r1") /\ Goes

\* the subscriptions are created, then the job runs; its query and every
\* awaited storage call of its loop may throw
NextComplete ==
  \/ /\ clock = 0
     /\ \E data \in IsolateSubscriptions : SubscriptionCreate("u1", data)
     /\ Goes
  \/ /\ nextTxId = 1
     /\ \E now \in RaceRunTimes : RunFindDue("r1", now)
     /\ start' = BillingSnapshot
     /\ UNCHANGED <<pre, prev>>
  \/ /\ nextTxId = 1
     /\ \E now \in RaceRunTimes : RunQueryFails("r1", now)
     /\ start' = BillingSnapshot
     /\ UNCHANGED <<pre, prev>>
  \/ CompleteSteps
  \/ RunReturn("r1") /\ Goes

\* every awaited storage call settles: it returns or it throws
SpecComplete == Init /\ [][NextComplete]_vars /\ WF_vars(CompleteSteps)

DeleteRaceCreates ==
  [amount : 1..MaxAmount, type : {"INCOME", "TRANSFER"}, accountId : {"a1"}, date : {ReqDate}]

\* u1 creates transactions on a1 and deletes a1 or a2, the storage calls of
\* the two handlers interleaved in every order; no storage failure
NextAccountDelete ==
  \/ \E data \in DeleteRaceCreates : CreateFindAccount("p1", "u1", data) /\ Goes
  \/ CreateInsert("p1") /\ Goes
  \/ CreateAdjust("p1") /\ Goes
  \/ \E id \in OwnAccIds : AccountDeleteFind("p2", "u1", id) /\ Goes
  \/ AccountDeleteCount("p2") /\ Goes
  \/ AccountDeleteUpdate("p2") /\ Goes
  \/ AccountDeleteRemove("p2") /\ Goes
  \/ \E p \in Procs : Return(p) /\ Goes

SpecAccountDelete == Init /\ [][NextAccountDelete]_vars

\* C29: (1) the step of an account delete that finds transactions on the
\* account sets isActive to false and changes nothing else of the account and
\* no transaction; (2) an account delete that found no transaction and has
\* answered with success has removed the row; (3) no step removes an account
\* that has a transaction, and every stored transaction has its account, also
\* when a create on the account runs between the steps of the delete.
C29_AccountDeletion ==
  /\ [][\A p \in Procs :
          req[p].pc = "a_update" /\ req'[p].pc = "done" /\ req'[p].status = Ok
            => /\ accounts' = [accounts EXCEPT ![req[p].data.accountId].isActive = FALSE]
               /\ transactions' = transactions]_vars
  /\ [][\A p \in Procs :
          req[p].pc = "a_delete" /\ req'[p].pc = "done" /\ req'[p].status = Ok
            => req[p].data.accountId \notin DOMAIN accounts']_vars
  /\ [][\A a \in DOMAIN accounts \ DOMAIN accounts' :
          TransactionCount(transactions, a) = 0]_vars
  /\ [](\A t \in DOMAIN transactions : transactions[t].accountId \in DOMAIN accounts)

\* ------------------------------------------------ requests on the categories
\* bodies of the category requests: two names, the name of a default category,
\* an empty name, a type
CategoryCreates ==
  [name : {"n1", "d1", ""}, type : {"INCOME"}]

CategoryUpdates ==
  {[name |-> n] : n \in {"n1", "n2", ""}} \cup {[type |-> "TRANSFER"]}
    \cup {[name |-> "n2", type |-> "INCOME"]}

CategoryIds == DOMAIN InitCategories \cup NewCategoryIds

\* category requests of both users, one at a time
NextCategory ==
  \/ \E u \in Users, data \in CategoryCreates : CategoryCreate("p1", u, data) /\ Goes
  \/ \E u \in Users, id \in CategoryIds, data \in CategoryUpdates :
       CategoryUpdate("p1", u, id, data) /\ Goes
  \/ \E u \in Users, id \in CategoryIds : CategoryDelete("p1", u, id) /\ Goes
  \/ Return("p1") /\ Goes

SpecCategory == Init /\ [][NextCategory]_vars

\* C30: after any sequence of category creates, updates and deletes by the
\* users, every default category is stored with every field as it was.
C30_DefaultCategoriesReadOnly ==
  \A c \in DOMAIN InitCategories :
    InitCategories[c].isDefault
      => c \in DOMAIN categories /\ categories[c] = InitCategories[c]

\* C30 witness: u1, who has created, renamed and retyped a category of their
\* own, asked to rename the default category they own and was refused.
C30_Witness ==
  /\ req["p1"].pc = "done"
  /\ req["p1"].op = "categoryUpdate"
  /\ req["p1"].userId = "u1"
  /\ req["p1"].existing.id = "c2"
  /\ req["p1"].data = [name |-> "n1"]
  /\ req["p1"].status = Forbidden
  /\ categories["c2"] = InitCategories["c2"]
  /\ \E c \in NewCategoryIds \cap DOMAIN categories :
       categories[c].userId = "u1" /\ categories[c].name = "n2"
         /\ categories[c].type = "TRANSFER"

\* --------------------------------------- two category creates at a time
\* u1 and u2 create and rename categories, the storage calls of two creates
\* interleaved in every order; no storage failure
NextCategoryRace ==
  \/ \E p \in Procs, u \in Users, data \in [name : {"n1", "n2"}, type : {"INCOME"}] :
       CategoryCreateFind(p, u, data) /\ Goes
  \/ \E p \in Procs : CategoryCreateInsert(p) /\ Goes
  \/ \E id \in NewCategoryIds, n \in {"n1", "n2"} :
       /\ \A q \in Procs : req[q].pc # "k_insert"
       /\ CategoryUpdate("p1", "u1", id, [name |-> n]) /\ Goes
  \/ \E p \in Procs : Return(p) /\ Goes

SpecCategoryRace == Init /\ [][NextCategoryRace]_vars

\* the request r, a valid create or a rename of a category its user may
\* edit, asks for a name another category of the user has in cats
AsksTakenName(cats, r) ==
  /\ Has(r.data, "name")
  /\ r.data.name # ""
  /\ \/ r.op = "categoryCreate" /\ NameTaken(cats, r.userId, r.data.name, "")
     \/ /\ r.op = "categoryUpdate"
        /\ FindOwnCategory(cats, r.existing.id, r.userId) # NoRow
        /\ ~cats[r.existing.id].isDefault
        /\ NameTaken(cats, r.userId, r.data.name, r.existing.id)

\* C31: (1) no user owns two categories with the same name; (2) the step that
\* ends a create or a rename asking for a name another category of the user
\* has at that time answers 409 and leaves the categories as they were.
C31_UniqueCategoryNames ==
  /\ [](\A c, d \in DOMAIN categories :
          c # d /\ categories[c].userId = categories[d].userId
                /\ categories[c].userId # ""
            => categories[c].name # categories[d].name)
  /\ [][\A p \in Procs :
          req[p].pc # "done" /\ req'[p].pc = "done" /\ AsksTakenName(categories, req'[p])
            => req'[p].status = Conflict /\ categories' = categories]_vars

\* ------------------------------------------- a billing and an expense create
\* the body of the create that asks for what the run bills for sub
ExpenseBody(sub) ==
  [amount |-> sub.amount, type |-> "EXPENSE", accountId |-> sub.accountId,
   date |-> sub.nextBillingDate]

\* C32: the step of a run that stores the row of a subscription stores, the
\* back-reference in metadata apart, the row the create handler would store for
\* an EXPENSE of the same amount, account and date asked by the owner, which
\* the handler would accept; the step that follows changes the balances as
\* the balance update of that create would.
C32_BillingAsExpenseCreate ==
  [][\A r \in Runs :
       LET sub == sched[r].cur
           account == FindActiveAccount(accounts, sub.accountId, sub.userId)
       IN
       /\ sched[r].pc = "s_create" /\ sched'[r].pc = "s_balance"
            => /\ CreateSchemaOk(ExpenseBody(sub))
               /\ account # NoRow
               /\ DOMAIN transactions' = DOMAIN transactions \cup {nextTxId}
               /\ \A t \in DOMAIN transactions : transactions'[t] = transactions[t]
               /\ [transactions'[nextTxId] EXCEPT !.metadata = NoData]
                    = CreatedRow(sub.userId, ExpenseBody(sub), account)
               /\ accounts' = accounts
       /\ sched[r].pc = "s_balance" /\ sched'[r].pc = "s_advance"
            => /\ account # NoRow
               /\ accounts' = CreateIncrement(accounts, account,
                                              CreateBalanceChange(ExpenseBody(sub)))
               /\ transactions' = transactions]_vars

\* C32 witness: the run has stored the row of a subscription of the largest
\* amount and taken the amount off the balance of a1.
C32_Witness ==
  /\ sched["r1"].pc = "s_advance"
  /\ sched["r1"].cur.amount = MaxAmount
  /\ \E t \in DOMAIN transactions :
       /\ SubscriptionOf(transactions[t]) = sched["r1"].cur.id
       /\ transactions[t].type = "EXPENSE"
       /\ transactions[t].amount = MaxAmount
  /\ accounts["a1"].balance = -MaxAmount

\* ------------------------------------------------- billing dates at month end
\* one subscription of u1 on a1 whose billing date is a day not every month
\* has, or the 15th, is created and the job runs again and again without a
\* storage failure
NextMonthEnd ==
  \/ /\ AllRunsIdle
     /\ subscriptions = << >>
     /\ \E data \in [name : {"n1"}, amount : 1..MaxAmount, billingCycle : Cycles,
                      nextBillingDate : {MakeDate(2023, 12, 31), MakeDate(2024, 1, 15),
                                         MakeDate(2024, 1, 29), MakeDate(2024, 1, 30),
                                         MakeDate(2024, 1, 31), MakeDate(2024, 2, 29),
                                         MakeDate(2023, 3, 31)},
                      accountId : {"a1"}] :
          SubscriptionCreate("u1", data)
     /\ Goes
  \/ CatchUpRun

SpecMonthEnd == Init /\ [][NextMonthEnd]_vars

\* months counted from year 0
MonthNumber(date) == YearOf(date) * 12 + MonthOf(date)

\* C33: the step of a run that advances a MONTHLY subscription sets a
\* nextBillingDate in the calendar month after the one of the date it had; the
\* step that advances a YEARLY subscription sets a date in the same month of
\* the year after.
C33_MonthEndAdvance ==
  [][\A i \in DOMAIN subscriptions :
       subscriptions'[i].nextBillingDate # subscriptions[i].nextBillingDate
         => LET old == subscriptions[i].nextBillingDate
                new == subscriptions'[i].nextBillingDate
            IN IF subscriptions[i].billingCycle = "MONTHLY"
               THEN MonthNumber(new) = MonthNumber(old) + 1
               ELSE YearOf(new) = YearOf(old) + 1 /\ MonthOf(new) = MonthOf(old)]_vars

\* ------------------------------- requests on a subscription during a run
\* u1 creates subscriptions due in January, the job runs in February, and u1
\* switches a subscription off, gives it a later date or deletes it between
\* any two storage calls of the run; no storage failure
NextSubscriptionRace ==
  \/ /\ AllRunsIdle
     /\ \E data \in [name : {"n1"}, amount : {1}, billingCycle : {"MONTHLY"},
                      nextBillingDate : {MakeDate(2024, 1, 1)}, accountId : OwnAccIds] :
          SubscriptionCreate("u1", data)
     /\ Goes
  \/ \E i \in 1..MaxSubs,
        data \in {[isActive |-> FALSE], [nextBillingDate |-> MakeDate(2024, 6, 1)]} :
       SubscriptionUpdate("u1", i, data) /\ Goes
  \/ \E i \in 1..MaxSubs : SubscriptionDelete("u1", i) /\ Goes
  \/ sched["r1"].pc = "idle" /\ RunFindDue("r1", MakeDate(2024, 2, 1)) /\ Goes
  \/ BillingSteps("r1") /\ Goes
  \/ RunReturn("r1") /\ Goes

SpecSubscriptionRace == Init /\ [][NextSubscriptionRace]_vars

\* C34: (1) the step of a run that stores a transaction for a subscription
\* finds the subscription stored, active and with nextBillingDate <= now;
\* (2) the step of a run that writes the nextBillingDate of a subscription
\* finds the date the run read, not one written since.
C34_BilledWhileActiveAndDue ==
  [][\A r \in Runs :
       LET i == sched[r].cur.id IN
       /\ sched[r].pc = "s_create" /\ transactions' # transactions
            => /\ i \in DOMAIN subscriptions
               /\ subscriptions[i].isActive
               /\ subscriptions[i].nextBillingDate <= sched[r].now
       /\ sched[r].pc = "s_advance" /\ subscriptions' # subscriptions
            => subscriptions[i].nextBillingDate = sched[r].cur.nextBillingDate]_vars

\* -------------------------------------------- postings on inactive accounts
\* the account a is stored and active
ActiveAccount(a) == a \in DOMAIN accounts /\ accounts[a].isActive

\* C35: (1) a step that stores a new transaction stores it on an account that
\* is stored and active; (2) a step that moves a transaction to another
\* account moves it to one that is stored and active; (3) the balance update
\* that follows the insert of a create or of a run changes no balance of an
\* inactive account.
C35_ActiveAccountsOnly ==
  [][/\ \A t \in DOMAIN transactions' \ DOMAIN transactions :
          ActiveAccount(transactions'[t].accountId)
     /\ \A t \in DOMAIN transactions' \cap DOMAIN transactions :
          transactions'[t].accountId # transactions[t].accountId
            => ActiveAccount(transactions'[t].accountId)
     /\ (\E r \in Runs : sched[r].pc = "s_balance" /\ sched'[r] # sched[r])
          \/ (\E p \in Procs : req[p].pc = "c_balance" /\ req'[p] # req[p])
          => \A a \in DOMAIN accounts \cap DOMAIN accounts' :
               ~accounts[a].isActive => accounts'[a].balance = accounts[a].balance]_vars

\* C36: every stored transaction has the currency of the account it refers to.
C36_CurrencyAgreement ==
  \A t \in DOMAIN transactions :
    transactions[t].accountId \in DOMAIN accounts
      => transactions[t].currency = accounts[transactions[t].accountId].currency

\* ------------------------------------------- two deletes of one transaction
\* both request processes have asked to delete the same transaction, an
\* INCOME or EXPENSE row that both found stored, and both have answered
BothDeleted ==
  /\ \A p \in Procs : req[p].pc = "done" /\ req[p].op = "delete" /\ req[p].existing # NoRow
  /\ req["p1"].id = req["p2"].id

\* C37: (1) when two deletes that found the same row have both answered, one
\* of them reports success and the other an error, the row is gone and, no
\* billing under way, every balance is the sum of the contributions of the
\* rows stored; (2) the step of a delete that takes the contribution of a row
\* off the balance is taken while no other delete of the row is about to take
\* it off or has taken it off.
C37_ConcurrentDeletesRevertOnce ==
  /\ [](BothDeleted
          => /\ \E p, q \in Procs : req[p].status = Ok /\ req[q].status = ServerError
             /\ req["p1"].id \notin DOMAIN transactions
             /\ (NoRunInProgress => Balanced))
  /\ [][\A p, q \in Procs :
          /\ p # q
          /\ req[p].pc = "d_revert" /\ accounts' # accounts
          /\ req[q].op = "delete" /\ req[q].id = req[p].id
          => /\ req[q].pc # "d_revert"
             /\ ~(req[q].pc = "done" /\ req[q].status = Ok)]_vars

\* C37 witness: two deletes of the same INCOME row of the largest amount found
\* it stored; both have answered, one with success, and the balance of a1 is
\* back at 0.
C37_Witness ==
  /\ BothDeleted
  /\ req["p1"].existing.type = "INCOME"
  /\ req["p1"].existing.amount = MaxAmount
  /\ req["p1"].status = ServerError
  /\ req["p2"].status = Ok
  /\ transactions = << >>
  /\ accounts["a1"].balance = 0

\* ------------------------------------------------------- owner isolation
\* the request r of user u names a transaction or an account stored for
\* another user
NamesForeign(r) ==
  \/ /\ r.op \in {"update", "delete"}
     /\ r.id \in DOMAIN pre.transactions
     /\ pre.transactions[r.id].userId # r.userId
  \/ /\ r.op \in {"create", "update"}
     /\ Has(r.data, "accountId")
     /\ r.data.accountId \in DOMAIN pre.accounts
     /\ pre.accounts[r.data.accountId].userId # r.userId

\* C38: (1) a step of a create, update or delete of user u leaves every
\* transaction and every account of the other users as it was, stores new
\* rows for u only, and leaves every row of u on an account of u; (2) a
\* request naming a transaction or an account of another user has answered as
\* for one that is not stored, with not-found, and the tables are as the
\* request found them.
C38_OwnerIsolation ==
  /\ [][\A p \in Procs :
          req'[p] # req[p] /\ req'[p].pc # "idle"
            => LET u == req'[p].userId IN
               /\ \A t \in DOMAIN transactions :
                    transactions[t].userId # u
                      => t \in DOMAIN transactions' /\ transactions'[t] = transactions[t]
               /\ \A t \in DOMAIN transactions' \ DOMAIN transactions :
                    transactions'[t].userId = u
               /\ \A a \in DOMAIN accounts :
                    accounts[a].userId # u
                      => a \in DOMAIN accounts' /\ accounts'[a] = accounts[a]
               /\ \A t \in DOMAIN transactions' :
                    /\ transactions'[t].userId = u
                    /\ transactions'[t].accountId \in DOMAIN accounts'
                    => accounts'[transactions'[t].accountId].userId = u]_vars
  /\ [](\A p \in Procs :
          req[p].pc = "done" /\ NamesForeign(req[p])
            => /\ req[p].status = NotFound
               /\ transactions = pre.transactions
               /\ accounts = pre.accounts)

\* C38 witness: u1 asked to delete a row u2 has stored on a3 and was answered
\* not-found; the row and the balance of a3 are as they were.
C38_Witness ==
  /\ req["p1"].pc = "done"
  /\ req["p1"].op = "delete"
  /\ req["p1"].userId = "u1"
  /\ req["p1"].status = NotFound
  /\ req["p1"].id \in DOMAIN transactions
  /\ transactions[req["p1"].id].userId = "u2"
  /\ transactions[req["p1"].id].accountId = "a3"
  /\ accounts["a3"].balance = -MaxAmount

\* ----------------------------------- requests next to the row of a billing
\* u1 creates a transaction on a1, the job bills a subscription of u1 on a1,
\* and u1 changes the amount of the rows, moves them to a2 and deletes them,
\* one request at a time and no run between the steps of a request; no
\* storage failure
NextFrame ==
  \/ \E data \in [amount : {MaxAmount}, type : {"INCOME", "TRANSFER"}, accountId : {"a1"},
                   date : {ReqDate}] :
       CreateFindAccount("p1", "u1", data) /\ Goes
  \/ \E id \in 1..(MaxTx + 1),
        data \in {[amount |-> 1], [accountId |-> "a2"]} :
       UpdateFindExisting("p1", "u1", id, data) /\ Goes
  \/ \E id \in 1..(MaxTx + 1) : DeleteFind("p1", "u1", id) /\ Goes
  \/ CreateInsert("p1") /\ Goes
  \/ CreateAdjust("p1") /\ Goes
  \/ UpdateFindAccount("p1") /\ Goes
  \/ UpdateWrite("p1") /\ Goes
  \/ UpdateRevert("p1") /\ Goes
  \/ UpdateApply("p1") /\ Goes
  \/ DeleteRow("p1") /\ Goes
  \/ DeleteRevert("p1") /\ Goes
  \/ Return("p1") /\ Goes
  \/ /\ req["p1"].pc = "idle" /\ AllRunsIdle /\ subscriptions = << >>
     /\ \E data \in [name : {"n1"}, amount : {1}, billingCycle : {"MONTHLY"},
                      nextBillingDate : {MakeDate(2024, 1, 1)}, accountId : {"a1"}] :
          SubscriptionCreate("u1", data)
     /\ Goes
  \/ /\ req["p1"].pc = "idle" /\ sched["r1"].pc = "idle"
     /\ RunFindDue("r1", MakeDate(2024, 2, 1))
     /\ Goes
  \/ req["p1"].pc = "idle" /\ BillingSteps("r1") /\ Goes

SpecFrame == Init /\ [][NextFrame]_vars

\* the accounts whose balance the request r may change: the account of the
\* transaction and, for an update, the account the body names
FrameAccounts(r) ==
  CASE r.op = "create" -> {r.data.accountId}
    [] r.op = "delete" /\ r.existing # NoRow -> {r.existing.accountId}
    [] r.op = "update" /\ r.existing # NoRow ->
         {r.existing.accountId}
           \cup (IF Has(r.data, "accountId") THEN {r.data.accountId} ELSE {})
    [] OTHER -> {}

\* C39: a step of a create, update or delete leaves every account outside
\* the accounts of the transaction (old and new, for an update) as it was, and
\* within them changes nothing but the balance; it leaves every stored row but
\* the row of the request as it was.
C39_LedgerFrame ==
  [][\A p \in Procs :
       req'[p] # req[p]
         => /\ DOMAIN accounts' = DOMAIN accounts
            /\ \A a \in DOMAIN accounts :
                 IF a \in FrameAccounts(req'[p])
                 THEN [accounts'[a] EXCEPT !.balance = 0] = [accounts[a] EXCEPT !.balance = 0]
                 ELSE accounts'[a] = accounts[a]
            /\ \A t \in DOMAIN transactions :
                 t # req'[p].id => t \in DOMAIN transactions' /\ transactions'[t] = transactions[t]
            /\ DOMAIN transactions' \ DOMAIN transactions \subseteq {req'[p].id}]_vars

\* C39 witness: u1 has moved the INCOME row they created from a1 to a2 while
\* the row the job billed on a1 is stored; the billed row is as the job stored
\* it, a1 holds the billing alone and a2 the income.
C39_Witness ==
  /\ Succeeded("p1", "update")
  /\ req["p1"].id = 1
  /\ req["p1"].existing.type = "INCOME"
  /\ req["p1"].existing.accountId = "a1"
  /\ req["p1"].data = [accountId |-> "a2"]
  /\ 2 \in DOMAIN transactions
  /\ SubscriptionOf(transactions[2]) = 1
  /\ transactions[2].accountId = "a1"
  /\ accounts["a1"].balance = -1
  /\ accounts["a2"].balance = MaxAmount
  /\ accounts["a3"].balance = 0

====
